---------------------------- MODULE Spec2Model ----------------------------
(***************************************************************************)
(* vidpak: lossless 12-bit tile codec (src/vidpak/pack.c) on top of the    *)
(* FSE U16 entropy coder (src/FiniteStateEntropy/lib/fseU16.c).            *)
(*                                                                         *)
(* Memory is modelled as sequences: a C array a[0..n-1] is the sequence    *)
(* <<a[0], ..., a[n-1]>>, so C index i is sequence index i+1.  A byte or   *)
(* pixel that was never written holds Poison.  A bit stream is a sequence  *)
(* of 0/1, least significant bit first, as the FSE writers fill it.        *)
(*                                                                         *)
(* The FSE core that fseU16.c includes (fse_compress.c, fse_decompress.c,  *)
(* bitstream.h) is not part of the sources at hand; its operators are      *)
(* modelled after spec sections 4.1 - 4.3.                                 *)
(***************************************************************************)
EXTENDS Integers, Sequences, FiniteSets, TLC

(***************************************************************************)
(* Bounds of the model.                                                    *)
(***************************************************************************)
MaxW == 4
MaxH == 8
MaxSlope == 1
MaxTwist == 1
MaxDiv == 3
MaxSyms == 11

(***************************************************************************)
(* Program constants.                                                      *)
(***************************************************************************)
FSE_MAX_MEMORY_USAGE == 15
FSE_DEFAULT_MEMORY_USAGE == 14
FSE_MAX_SYMBOL_VALUE == 4095
FSE_MAX_TABLELOG == FSE_MAX_MEMORY_USAGE - 2
FSE_DEFAULT_TABLELOG == FSE_DEFAULT_MEMORY_USAGE - 2
FSE_MIN_TABLELOG == 5
FSE_TABLELOG_ABSOLUTE_MAX == 15
ContainerBits == 64
Poison == 0 - 1

(***************************************************************************)
(* Arithmetic and bit helpers.                                             *)
(***************************************************************************)
Pow2(n) == 2^n

Min(a, b) == IF a < b THEN a ELSE b

Max(a, b) == IF a > b THEN a ELSE b

\* a local variable: v is computed once and F is the code that follows its assignment
Let(v, F(_)) == F(v)

Abs(a) == IF a < 0 THEN -a ELSE a

\* the position of the highest set bit of v (0 when v <= 1)
BIT_highbit32(v) == IF v <= 1 THEN 0 ELSE CHOOSE k \in 1..30 : v \div Pow2(k) = 1

\* the low n bits of v, least significant first
BitsOf(v, n) == [i \in 1..n |-> (v \div Pow2(i - 1)) % 2]

Ones(n) == [i \in 1..n |-> 1]

\* s[lo] + ... + s[hi], by halves
RECURSIVE SumRange(_, _, _)
SumRange(s, lo, hi) ==
    IF lo > hi THEN 0
    ELSE IF lo = hi THEN s[lo]
    ELSE SumRange(s, lo, (lo + hi) \div 2) + SumRange(s, (lo + hi) \div 2 + 1, hi)

SumSeq(s) == SumRange(s \o <<>>, 1, Len(s))

\* the value of a bit string, least significant bit first
ValOf(bits) == SumSeq([i \in 1..Len(bits) |-> bits[i] * Pow2(i - 1)])

SetMin(S) == CHOOSE x \in S : \A y \in S : x <= y

SetMax(S) == CHOOSE x \in S : \A y \in S : x >= y

\* the members of S, all in lo..hi, in increasing order
RECURSIVE SortRange(_, _, _)
SortRange(S, lo, hi) ==
    IF S = {} THEN <<>>
    ELSE IF lo = hi THEN <<lo>>
    ELSE SortRange({x \in S : x <= (lo + hi) \div 2}, lo, (lo + hi) \div 2)
         \o SortRange({x \in S : x > (lo + hi) \div 2}, (lo + hi) \div 2 + 1, hi)

SortedSeq(S) == IF S = {} THEN <<>> ELSE SortRange(S, SetMin(S), SetMax(S))

\* a bit stream as bytes (the last byte zero padded), and bytes as a bit stream
BytesOfBits(bits) ==
    LET n == (Len(bits) + 7) \div 8
    IN  [k \in 1..n |-> ValOf([i \in 1..8 |->
            IF 8 * (k - 1) + i <= Len(bits) THEN bits[8 * (k - 1) + i] ELSE 0])]

(***************************************************************************)
(* FSE, compression side.  A histogram or a normalized distribution is a   *)
(* function on the symbols that occur; every other symbol of the C array   *)
(* holds 0.                                                                *)
(***************************************************************************)
At0(f, s) == IF s \in DOMAIN f THEN f[s] ELSE 0

NoError == "none"

\* FSE_countU16: the histogram of src, the tightened maxSymbolValue, the largest count
FSE_countU16(src, maxSymbolValue) ==
    IF Len(src) = 0
    THEN [err |-> NoError, count |-> <<>>, maxSymbolValue |-> 0, max |-> 0]
    ELSE IF \E i \in 1..Len(src) : src[i] > maxSymbolValue
    THEN [err |-> "maxSymbolValue_tooSmall", count |-> <<>>,
          maxSymbolValue |-> maxSymbolValue, max |-> 0]
    ELSE LET S == {src[i] : i \in 1..Len(src)}
             count == [s \in S |-> Cardinality({i \in 1..Len(src) : src[i] = s})]
         IN  [err |-> NoError, count |-> count, maxSymbolValue |-> SetMax(S),
              max |-> SetMax({count[s] : s \in S})]

FSE_minTableLog(srcSize, maxSymbolValue) ==
    Min(BIT_highbit32(srcSize - 1) + 1, BIT_highbit32(maxSymbolValue) + 2)

\* maxBitsSrc is a U32: for srcSize <= 4 the subtraction wraps to a huge value,
\* which is never below tableLog
FSE_optimalTableLog(maxTableLog, srcSize, maxSymbolValue) ==
    LET hb == BIT_highbit32(srcSize - 1)
        t0 == IF maxTableLog = 0 THEN FSE_DEFAULT_TABLELOG ELSE maxTableLog
        t1 == IF hb >= 2 /\ hb - 2 < t0 THEN hb - 2 ELSE t0
        minBits == FSE_minTableLog(srcSize, maxSymbolValue)
        t2 == IF minBits > t1 THEN minBits ELSE t1
    IN  Min(FSE_MAX_TABLELOG, Max(FSE_MIN_TABLELOG, t2))

rtbTable == <<0, 473195, 504333, 520860, 550000, 700000, 750000, 830000>>

\* 2^e modulo m, by squaring
RECURSIVE Pow2Mod(_, _)
Pow2Mod(e, m) ==
    IF e = 0 THEN 1 % m
    ELSE IF e % 2 = 1 THEN (2 * Pow2Mod(e - 1, m)) % m
    ELSE Let(Pow2Mod(e \div 2, m), LAMBDA h : (h * h) % m)

\* proba of one symbol: (count*step) >> scale with step = 2^62 / total (a floor), raised
\* by one when proba < 8 and the rest beats rtbTable[proba].  With
\* count * 2^tableLog = a*total + b and r = 2^62 mod total the 64 bit product is
\* a*2^scale + (b*2^scale - count*r)/total, which gives the case split below.
NormProba(c, total, tableLog) ==
    LET r == Pow2Mod(62, total)
        a == (c * Pow2(tableLog)) \div total
        b == (c * Pow2(tableLog)) % total
        borrow == b = 0 /\ c * r > 0
        proba == IF borrow THEN a - 1 ELSE a
        restNum == IF borrow THEN total ELSE b
    IN  IF proba < 8 /\ restNum * Pow2(20) > rtbTable[proba + 1] * total
        THEN proba + 1 ELSE proba

\* FSE_normalizeM2, the second normalization method.  sEnd = (tmpTotal + C*rStep) >> vStepLog
\* for C counts consumed is ((2*C*ToDistribute + C + total) - 1) \div (2*total).
FSE_normalizeM2(tableLog, count, total0, maxSymbolValue) ==
    LET S == DOMAIN count
        lowThreshold == total0 \div Pow2(tableLog)
        lowOne0 == (total0 * 3) \div Pow2(tableLog + 1)
        A1 == {s \in S : count[s] <= lowThreshold}
        B1 == {s \in S \ A1 : count[s] <= lowOne0}
        total1 == total0 - SumSeq([i \in 1..Cardinality(A1 \cup B1) |->
                      count[SortedSeq(A1 \cup B1)[i]]])
        ToD1 == Pow2(tableLog) - Cardinality(A1 \cup B1)
        again == ToD1 # 0 /\ (total1 \div ToD1) > lowOne0
        lowOne1 == (total1 * 3) \div (ToD1 * 2)
        B2 == IF again THEN {s \in S \ (A1 \cup B1) : count[s] <= lowOne1} ELSE {}
        total == total1 - SumSeq([i \in 1..Cardinality(B2) |-> count[SortedSeq(B2)[i]]])
        distributed == Cardinality(A1 \cup B1 \cup B2)
        ToDistribute == Pow2(tableLog) - distributed
        R == S \ (A1 \cup B1 \cup B2)
        base == [s \in S |-> IF s \in A1 THEN -1 ELSE IF s \in B1 \cup B2 THEN 1 ELSE -2]
        maxC == SetMax({count[s] : s \in S})
        maxV == SetMin({s \in S : count[s] = maxC})
        ones == SortedSeq(B1 \cup B2)
        rank(s) == Cardinality({x \in B1 \cup B2 : x < s})
        before(s) == SumSeq([i \in 1..Cardinality({x \in R : x < s}) |->
                         count[SortedSeq({x \in R : x < s})[i]]])
        sEnd(C) == ((2 * C * ToDistribute + C + total) - 1) \div (2 * total)
        weight(s) == sEnd(before(s) + count[s]) - sEnd(before(s))
    IN  IF ToD1 = 0 THEN [err |-> NoError, norm |-> base]
        ELSE IF distributed = maxSymbolValue + 1
        THEN [err |-> NoError, norm |-> [base EXCEPT ![maxV] = @ + ToDistribute]]
        ELSE IF total = 0
        THEN [err |-> NoError, norm |-> [s \in S |->
                 IF base[s] <= 0 THEN base[s]
                 ELSE base[s] + ToDistribute \div Len(ones)
                      + (IF rank(s) < ToDistribute % Len(ones) THEN 1 ELSE 0)]]
        ELSE IF \E s \in R : weight(s) < 1
        THEN [err |-> "GENERIC", norm |-> base]
        ELSE [err |-> NoError, norm |-> [s \in S |-> IF s \in R THEN weight(s) ELSE base[s]]]

\* FSE_normalizeCount: scale the histogram to sum to 2^tableLog
FSE_normalizeCount(tableLog, count, total, maxSymbolValue) ==
    LET S == DOMAIN count
        lowThreshold == total \div Pow2(tableLog)
        low == {s \in S : count[s] <= lowThreshold}
        proba == [s \in S \ low |-> NormProba(count[s], total, tableLog)]
        largestP == IF S \ low = {} THEN 0 ELSE SetMax({proba[s] : s \in S \ low})
        largest == IF S \ low = {} THEN 0
                   ELSE SetMin({s \in S \ low : proba[s] = largestP})
        first == [s \in S |-> IF s \in low THEN -1 ELSE proba[s]]
        stillToDistribute == Pow2(tableLog) - Cardinality(low)
                             - SumSeq([i \in 1..Cardinality(S \ low) |->
                                   proba[SortedSeq(S \ low)[i]]])
    IN  IF tableLog < FSE_MIN_TABLELOG THEN [err |-> "GENERIC", norm |-> first]
        ELSE IF tableLog > FSE_MAX_TABLELOG THEN [err |-> "tableLog_tooLarge", norm |-> first]
        ELSE IF tableLog < FSE_minTableLog(total, maxSymbolValue)
        THEN [err |-> "GENERIC", norm |-> first]
        ELSE IF -stillToDistribute >= (At0(first, largest) \div 2)
        THEN FSE_normalizeM2(tableLog, count, total, maxSymbolValue)
        ELSE [err |-> NoError,
              norm |-> [s \in S |-> IF s = largest THEN first[s] + stillToDistribute
                                    ELSE first[s]]]

FSE_NCountWriteBound(maxSymbolValue, tableLog) ==
    IF maxSymbolValue # 0 THEN (((maxSymbolValue + 1) * tableLog) \div 8) + 3 ELSE 512

\* the writer's "write 16 bits and advance": refused when the write is not known to be
\* safe and fewer than 2 bytes are left
NCountFlush(st, bufferSize, writeIsSafe) ==
    IF ~writeIsSafe /\ st.out > bufferSize - 2
    THEN [st EXCEPT !.err = "dstSize_tooSmall"]
    ELSE [st EXCEPT !.out = @ + 2, !.bitCount = @ - 16]

\* k runs of 24 zero symbols, each 16 one bits written out at once (the first half of
\* the runs, then the others)
RECURSIVE NCountRun24(_, _, _, _)
NCountRun24(st, k, bufferSize, writeIsSafe) ==
    IF k = 0 \/ st.err # NoError THEN st
    ELSE IF k = 1
    THEN NCountFlush([st EXCEPT !.bits = @ \o Ones(16), !.bitCount = @ + 16],
                     bufferSize, writeIsSafe)
    ELSE NCountRun24(NCountRun24(st, k \div 2, bufferSize, writeIsSafe),
                     k - (k \div 2), bufferSize, writeIsSafe)

\* after a zero count: the length of the run of zero counts that follows
NCountZeroRun(st, norm, alphabetSize, bufferSize, writeIsSafe) ==
    LET start == st.symbol
        rest == {x \in DOMAIN norm : x >= start /\ norm[x] # 0}
        symbol == IF rest = {} THEN alphabetSize ELSE SetMin(rest)
        run == symbol - start
        s1 == NCountRun24(st, run \div 24, bufferSize, writeIsSafe)
        n3 == (run % 24) \div 3
        s2 == [s1 EXCEPT !.bits = @ \o Ones(2 * n3) \o BitsOf((run % 24) % 3, 2),
                         !.bitCount = @ + 2 * n3 + 2,
                         !.symbol = symbol]
    IN  IF symbol = alphabetSize THEN [st EXCEPT !.symbol = symbol, !.stop = TRUE]
        ELSE IF s1.err # NoError THEN s1
        ELSE IF s2.bitCount > 16 THEN NCountFlush(s2, bufferSize, writeIsSafe)
        ELSE s2

RECURSIVE NCountShrink(_)
NCountShrink(st) ==
    IF st.remaining < st.threshold
    THEN NCountShrink([st EXCEPT !.nbBits = @ - 1, !.threshold = @ \div 2])
    ELSE st

\* one normalized count, in nbBits bits or one bit less
NCountSymbol(st, norm, bufferSize, writeIsSafe) ==
    LET c0 == At0(norm, st.symbol)
        max == (2 * st.threshold - 1) - st.remaining
        remaining == st.remaining - Abs(c0)
        c1 == c0 + 1
        count == IF c1 >= st.threshold THEN c1 + max ELSE c1
        width == st.nbBits - (IF count < max THEN 1 ELSE 0)
        s1 == [st EXCEPT !.bits = @ \o BitsOf(count, width),
                         !.bitCount = @ + width,
                         !.symbol = @ + 1,
                         !.remaining = remaining,
                         !.previousIs0 = (count = 1)]
        s2 == NCountShrink(s1)
    IN  IF remaining < 1 THEN [s1 EXCEPT !.err = "GENERIC"]
        ELSE IF s2.bitCount > 16 THEN NCountFlush(s2, bufferSize, writeIsSafe)
        ELSE s2

RECURSIVE NCountLoop(_, _, _, _, _)
NCountLoop(st, norm, alphabetSize, bufferSize, writeIsSafe) ==
    IF st.err # NoError \/ st.stop
       \/ ~(st.symbol < alphabetSize /\ st.remaining > 1) THEN st
    ELSE Let(IF st.previousIs0
             THEN NCountZeroRun(st, norm, alphabetSize, bufferSize, writeIsSafe)
             ELSE st, LAMBDA s1 :
         IF s1.err # NoError \/ s1.stop THEN s1
         ELSE NCountLoop(NCountSymbol(s1, norm, bufferSize, writeIsSafe),
                         norm, alphabetSize, bufferSize, writeIsSafe))

\* FSE_writeNCount: the header, 4 bits of tableLog then the counts; reach is the number
\* of bytes of the buffer that were stored into (the counts go out 2 bytes at a time)
FSE_writeNCount(bufferSize, norm, maxSymbolValue, tableLog) ==
    LET writeIsSafe == bufferSize >= FSE_NCountWriteBound(maxSymbolValue, tableLog)
        init == [bits |-> BitsOf(tableLog - FSE_MIN_TABLELOG, 4), bitCount |-> 4,
                 out |-> 0, remaining |-> Pow2(tableLog) + 1,
                 threshold |-> Pow2(tableLog), nbBits |-> tableLog + 1,
                 symbol |-> 0, previousIs0 |-> FALSE, stop |-> FALSE, err |-> NoError]
    IN  Let(NCountLoop(init, norm, maxSymbolValue + 1, bufferSize, writeIsSafe), LAMBDA st :
        IF st.err # NoError THEN [err |-> st.err, size |-> 0, bytes |-> <<>>, reach |-> st.out]
        ELSE IF st.remaining # 1
        THEN [err |-> "GENERIC", size |-> 0, bytes |-> <<>>, reach |-> st.out]
        ELSE IF ~writeIsSafe /\ st.out > bufferSize - 2
        THEN [err |-> "dstSize_tooSmall", size |-> 0, bytes |-> <<>>, reach |-> st.out]
        ELSE [err |-> NoError, size |-> st.out + (st.bitCount + 7) \div 8,
              bytes |-> BytesOfBits(st.bits), reach |-> st.out + 2])

FSE_TABLESTEP(tableSize) == (tableSize \div 2) + (tableSize \div 8) + 3

\* the next free cell of the spread: step, and again while in the low probability area
RECURSIVE SpreadNext(_, _, _)
SpreadNext(position, tableSize, highThreshold) ==
    LET p == (position + FSE_TABLESTEP(tableSize)) % tableSize
    IN  IF p > highThreshold THEN SpreadNext(p, tableSize, highThreshold) ELSE p

\* at most n more iterations of the spread: st.k symbols placed so far, the next
\* one goes to st.position
RECURSIVE SpreadLoop(_, _, _, _, _)
SpreadLoop(st, syms, tableSize, highThreshold, n) ==
    IF n = 0 \/ st.k >= Len(syms) THEN st
    ELSE IF n = 1
    THEN [k |-> st.k + 1,
          table |-> [st.table EXCEPT ![st.position] = syms[st.k + 1]],
          position |-> SpreadNext(st.position, tableSize, highThreshold)]
    ELSE SpreadLoop(SpreadLoop(st, syms, tableSize, highThreshold, n \div 2),
                    syms, tableSize, highThreshold, n - (n \div 2))

Repeat(x, n) == [i \in 1..n |-> x]

\* ss[lo] \o ... \o ss[hi], by halves
RECURSIVE FlatRange(_, _, _)
FlatRange(ss, lo, hi) ==
    IF lo > hi THEN <<>>
    ELSE IF lo = hi THEN ss[lo] \o <<>>
    ELSE FlatRange(ss, lo, (lo + hi) \div 2) \o FlatRange(ss, (lo + hi) \div 2 + 1, hi)

Flatten(ss) == FlatRange(ss \o <<>>, 1, Len(ss))

\* the spread of the symbols over the 2^tableLog cells: the low probability symbols
\* from the top, the others norm[s] times each, FSE_TABLESTEP apart
SpreadWalk(norm, tableLog) ==
    LET tableSize == Pow2(tableLog)
        lows == SortedSeq({s \in DOMAIN norm : norm[s] = -1})
        highThreshold == tableSize - 1 - Len(lows)
        syms == SortedSeq(DOMAIN norm)
        occ == Flatten([i \in 1..Len(syms) |-> Repeat(syms[i], Max(0, norm[syms[i]]))])
        top == [u \in 0..(tableSize - 1) |->
                    IF u > highThreshold THEN lows[tableSize - u] ELSE Poison]
    IN  SpreadLoop([k |-> 0, table |-> top, position |-> 0], occ, tableSize,
                   highThreshold, Len(occ))

\* tableSymbol: the symbol of each cell
SpreadSymbols(norm, tableLog) == SpreadWalk(norm, tableLog).table

\* the position the spread ends at, which must be 0.  The step is odd, so the walk
\* meets every cell once in tableSize steps and is back at cell 0 after as many
\* symbols as there are cells up to highThreshold.
SpreadEnd(norm, tableLog) ==
    LET S == DOMAIN norm
        placed == SumSeq([i \in 1..Cardinality(S) |-> Max(0, norm[SortedSeq(S)[i]])])
    IN  IF placed + Cardinality({s \in S : norm[s] = -1}) = Pow2(tableLog) THEN 0
        ELSE SpreadWalk(norm, tableLog).position

\* FSE_buildCTable's return value: the spread must end where it began
FSE_buildCTableU16(norm, maxSymbolValue, tableLog) ==
    IF SpreadEnd(norm, tableLog) # 0 THEN "GENERIC" ELSE NoError

\* the table FSE_buildCTable fills: tableU16 (next state, sorted by symbol) and the
\* symbol transformation table (deltaNbBits, deltaFindState)
CTableU16(norm, maxSymbolValue, tableLog) ==
    LET tableSize == Pow2(tableLog)
        tableSymbol == SpreadSymbols(norm, tableLog)
        S == DOMAIN norm
        width(s) == IF norm[s] = -1 THEN 1 ELSE norm[s]
        cumul == [s \in S |-> SumSeq([i \in 1..Cardinality({x \in S : x < s}) |->
                                 width(SortedSeq({x \in S : x < s})[i])])]
        cells(s) == SortedSeq({u \in 0..(tableSize - 1) : tableSymbol[u] = s})
        owner(i) == CHOOSE s \in S : cumul[s] <= i /\ i < cumul[s] + width(s)
        tableU16 == [i \in 0..(tableSize - 1) |->
                        tableSize + cells(owner(i))[i - cumul[owner(i)] + 1]]
        symbolTT == [s \in S |->
            IF norm[s] = -1 \/ norm[s] = 1
            THEN [deltaNbBits |-> tableLog * 65536 - tableSize,
                  deltaFindState |-> cumul[s] - 1]
            ELSE LET maxBitsOut == tableLog - BIT_highbit32(norm[s] - 1)
                     minStatePlus == norm[s] * Pow2(maxBitsOut)
                 IN  [deltaNbBits |-> maxBitsOut * 65536 - minStatePlus,
                      deltaFindState |-> cumul[s] - norm[s]]]
    IN  [tableLog |-> tableLog, tableU16 |-> tableU16, symbolTT |-> symbolTT]

\* FSE_initCState2: the state of the first symbol of a stream, chosen without writing bits
FSE_initCState2(ct, symbol) ==
    LET tt == ct.symbolTT[symbol]
        nbBitsOut == (tt.deltaNbBits + 32768) \div 65536
        value == nbBitsOut * 65536 - tt.deltaNbBits
    IN  ct.tableU16[(value \div Pow2(nbBitsOut)) + tt.deltaFindState]

\* FSE_encodeSymbol: write the low nbBitsOut bits of the state, move to the next state
FSE_encodeSymbol(bits, ct, value, symbol) ==
    LET tt == ct.symbolTT[symbol]
        nbBitsOut == (value + tt.deltaNbBits) \div 65536
    IN  [bits |-> bits \o BitsOf(value, nbBitsOut),
         value |-> ct.tableU16[(value \div Pow2(nbBitsOut)) + tt.deltaFindState]]

\* the static test "sizeof(bitC.bitContainer)*8 > FSE_MAX_TABLELOG*4+7"
FourPerLoop == ContainerBits > FSE_MAX_TABLELOG * 4 + 7

\* FSE_initCState2(&CStatek, ct, *--ip); taken lists the symbols read so far, each
\* by its index in src (from 0) and the state that took it
EncodeInit(st, k, src, ct) ==
    [st EXCEPT !.ip = @ - 1, !.state[k] = FSE_initCState2(ct, src[st.ip]),
               !.taken = Append(@, << st.ip - 1, k >>)]

\* FSE_encodeSymbol(&bitC, &CStatek, *--ip)
EncodeNext(st, k, src, ct) ==
    LET r == FSE_encodeSymbol(st.bits, ct, st.state[k], src[st.ip])
    IN  [st EXCEPT !.ip = @ - 1, !.bits = r.bits, !.state[k] = r.value,
                   !.taken = Append(@, << st.ip - 1, k >>)]

\* the main loop of FSE_compressU16_usingCTable: while (ip > istart), 2 or 4 symbols
RECURSIVE EncodeLoop(_, _, _)
EncodeLoop(st, src, ct) ==
    IF st.ip <= 0 THEN st
    ELSE LET two == EncodeNext(EncodeNext(st, 2, src, ct), 1, src, ct)
         IN  EncodeLoop(IF FourPerLoop
                        THEN EncodeNext(EncodeNext(two, 2, src, ct), 1, src, ct)
                        ELSE two,
                        src, ct)

\* a variant of EncodeHead that gives the last symbol to state 2 and the one before it
\* to state 1 whatever srcSize is
EncodeHead_even(src, ct) ==
    LET srcSize == Len(src)
        st0 == [ip |-> srcSize, bits |-> <<>>, state |-> <<0, 0>>, taken |-> <<>>]
        st1 == IF srcSize % 2 = 1
               THEN EncodeNext(EncodeInit(EncodeInit(st0, 2, src, ct), 1, src, ct),
                               2, src, ct)
               ELSE EncodeInit(EncodeInit(st0, 2, src, ct), 1, src, ct)
    IN  IF FourPerLoop /\ ((srcSize - 2) \div 2) % 2 = 1
        THEN EncodeNext(EncodeNext(st1, 2, src, ct), 1, src, ct)
        ELSE st1

\* the symbols before the main loop: the two states are initialised from the last two
\* symbols (three symbols are taken when srcSize is odd), then two more symbols are
\* taken when bit 1 of srcSize-2 is set; ip counts the symbols not yet read
EncodeHead(src, ct) ==
    LET srcSize == Len(src)
        st0 == [ip |-> srcSize, bits |-> <<>>, state |-> <<0, 0>>, taken |-> <<>>]
        st1 == IF srcSize % 2 = 1
               THEN EncodeNext(EncodeInit(EncodeInit(st0, 1, src, ct), 2, src, ct),
                               1, src, ct)
               ELSE EncodeInit(EncodeInit(st0, 2, src, ct), 1, src, ct)
    IN  IF FourPerLoop /\ ((srcSize - 2) \div 2) % 2 = 1
        THEN EncodeNext(EncodeNext(st1, 2, src, ct), 1, src, ct)
        ELSE st1

\* FSE_compressU16_usingCTable.  BIT_initCStream needs more than one container of room;
\* BIT_flushBits clamps the write pointer to endPtr = start + capacity - 8 and
\* BIT_closeCStream reports 0 when the pointer got there, so the stream (with its final
\* 1 bit) is returned only if its whole bytes stay below endPtr.  walked tells whether
\* the symbols were walked, ip is the read pointer at the end (as an index into src),
\* taken the symbols read, reach the number of bytes from dst on that were stored
\* into (a flush stores a whole container at the write pointer).
FSE_compressU16_usingCTable(maxDstSize, src, ct) ==
    IF Len(src) <= 2
    THEN [size |-> 0, bytes |-> <<>>, walked |-> FALSE, ip |-> Len(src), taken |-> <<>>,
          reach |-> 0]
    ELSE IF maxDstSize <= ContainerBits \div 8
    THEN [size |-> 0, bytes |-> <<>>, walked |-> FALSE, ip |-> Len(src), taken |-> <<>>,
          reach |-> 0]
    ELSE Let(EncodeLoop(EncodeHead(src, ct), src, ct), LAMBDA st :
         Let(st.bits \o BitsOf(st.state[2], ct.tableLog)
                    \o BitsOf(st.state[1], ct.tableLog)
                    \o <<1>>, LAMBDA bits :
         IF Len(bits) \div 8 >= maxDstSize - ContainerBits \div 8
         THEN [size |-> 0, bytes |-> <<>>, walked |-> TRUE, ip |-> st.ip,
               taken |-> st.taken, reach |-> maxDstSize]
         ELSE [size |-> (Len(bits) + 7) \div 8, bytes |-> BytesOfBits(bits),
               walked |-> TRUE, ip |-> st.ip, taken |-> st.taken,
               reach |-> (Len(bits) + 7) \div 8 + ContainerBits \div 8 - 1]))

\* what FSE_compressU16_usingCTable tells when it is not called
NoWalk == [walked |-> FALSE, ip |-> 0, taken |-> <<>>, size |-> 0]

\* FSE_compressU16: ret is the return value when err is NoError, bytes the compressed
\* form, reach the number of bytes from dst on that were stored into, body what
\* FSE_compressU16_usingCTable did
FSE_compressU16(maxDstSize, src, maxSymbolValue0, tableLog0) ==
    LET srcSize == Len(src)
        msv0 == IF maxSymbolValue0 = 0 THEN FSE_MAX_SYMBOL_VALUE ELSE maxSymbolValue0
        tl0 == IF tableLog0 = 0 THEN FSE_DEFAULT_TABLELOG ELSE tableLog0
        fail(e) == [err |-> e, ret |-> 0, bytes |-> <<>>, reach |-> 0, body |-> NoWalk]
    IN  IF srcSize <= 1
        THEN [err |-> NoError, ret |-> srcSize, bytes |-> <<>>, reach |-> 0,
              body |-> NoWalk]
        ELSE IF msv0 > FSE_MAX_SYMBOL_VALUE THEN fail("maxSymbolValue_tooLarge")
        ELSE IF tl0 > FSE_MAX_TABLELOG THEN fail("tableLog_tooLarge")
        ELSE Let(FSE_countU16(src, msv0), LAMBDA hist :
        IF hist.err # NoError THEN fail(hist.err)
        ELSE IF hist.max = srcSize
        THEN [err |-> NoError, ret |-> 1, bytes |-> <<>>, reach |-> 0, body |-> NoWalk]
        ELSE Let(FSE_optimalTableLog(tl0, srcSize, hist.maxSymbolValue), LAMBDA tableLog :
             Let(FSE_normalizeCount(tableLog, hist.count, srcSize, hist.maxSymbolValue),
                 LAMBDA nc :
        IF nc.err # NoError THEN fail(nc.err)
        ELSE Let(FSE_writeNCount(maxDstSize, nc.norm, hist.maxSymbolValue, tableLog),
                 LAMBDA hdr :
        IF hdr.err # NoError THEN [fail(hdr.err) EXCEPT !.reach = hdr.reach]
        ELSE Let(FSE_buildCTableU16(nc.norm, hist.maxSymbolValue, tableLog), LAMBDA built :
        IF built # NoError THEN [fail(built) EXCEPT !.reach = hdr.reach]
        ELSE Let(FSE_compressU16_usingCTable(maxDstSize - hdr.size, src,
                     CTableU16(nc.norm, hist.maxSymbolValue, tableLog)), LAMBDA body :
         Let([walked |-> body.walked, ip |-> body.ip, taken |-> body.taken,
              size |-> body.size], LAMBDA walk :
         Let(Max(hdr.reach, IF body.reach = 0 THEN 0 ELSE hdr.size + body.reach),
             LAMBDA reach :
        IF body.size = 0
        THEN [fail("dstSize_tooSmall") EXCEPT !.reach = reach, !.body = walk]
        ELSE IF hdr.size + body.size >= (srcSize - 1) * 2
        THEN [err |-> NoError, ret |-> 0, bytes |-> <<>>, reach |-> reach, body |-> walk]
        ELSE [err |-> NoError, ret |-> hdr.size + body.size,
              bytes |-> hdr.bytes \o body.bytes, reach |-> reach,
              body |-> walk]))))))))

\* the bits of a byte buffer, least significant bit of the first byte first
BitsOfBytes(bytes) ==
    [i \in 1..(8 * Len(bytes)) |-> (bytes[(i + 7) \div 8] \div Pow2((i - 1) % 8)) % 2]

\* the low k bits of FSE_readNCount's bitStream: the buffer's bits from ws up to we
\* (the end of the 32 bits last loaded), zero above
NCountPeek(bits, st, k) ==
    ValOf([i \in 1..k |-> IF st.ws + i <= Min(st.we, Len(bits))
                          THEN bits[st.ws + i] ELSE 0])

\* bitStream = MEM_readLE32(ip) >> shift
NCountLoad(st, ip, shift) == [st EXCEPT !.ip = ip, !.ws = 8 * ip + shift, !.we = 8 * ip + 32]

\* while ((bitStream & 0xFFFF) == 0xFFFF): 24 more zero symbols; at most n times
\* (the first half of them, then the others)
RECURSIVE NCountRead24(_, _, _, _)
NCountRead24(bits, st, iend, n) ==
    IF n = 0 \/ NCountPeek(bits, st, 16) # 65535 THEN st
    ELSE IF n = 1
    THEN IF st.ip < iend - 5
         THEN NCountLoad([st EXCEPT !.n0 = @ + 24], st.ip + 2, st.bitCount)
         ELSE [st EXCEPT !.n0 = @ + 24, !.ws = @ + 16, !.bitCount = @ + 16]
    ELSE NCountRead24(bits, NCountRead24(bits, st, iend, n \div 2), iend, n - (n \div 2))

\* while ((bitStream & 3) == 3): 3 more zero symbols
RECURSIVE NCountRead3(_, _)
NCountRead3(bits, st) ==
    IF NCountPeek(bits, st, 2) # 3 THEN st
    ELSE NCountRead3(bits, [st EXCEPT !.n0 = @ + 3, !.ws = @ + 2, !.bitCount = @ + 2])

\* the "if (previous0)" block of FSE_readNCount
NCountReadZeros(bits, st0, iend, maxSV) ==
    Let(NCountRead3(bits, NCountRead24(bits, [st0 EXCEPT !.n0 = Len(st0.norm)], iend,
                                       Len(bits) \div 16 + 1)),
        LAMBDA a :
    Let(a.n0 + NCountPeek(bits, a, 2), LAMBDA n0 :
    Let([a EXCEPT !.bitCount = @ + 2,
                  !.norm = [i \in 1..Max(n0, Len(a.norm)) |->
                               IF i <= Len(a.norm) THEN a.norm[i] ELSE 0]], LAMBDA b :
        IF n0 > maxSV THEN [a EXCEPT !.err = "maxSymbolValue_tooSmall"]
        ELSE IF b.ip <= iend - 7 \/ b.ip + (b.bitCount \div 8) <= iend - 4
        THEN NCountLoad([b EXCEPT !.bitCount = @ % 8], b.ip + (b.bitCount \div 8),
                        b.bitCount % 8)
        ELSE [b EXCEPT !.ws = @ + 2])))

RECURSIVE NCountReadShrink(_)
NCountReadShrink(st) ==
    IF st.remaining < st.threshold /\ st.threshold > 0
    THEN NCountReadShrink([st EXCEPT !.nbBits = @ - 1, !.threshold = @ \div 2])
    ELSE st

\* one normalized counter read from the header
NCountReadSymbol(bits, st, iend) ==
    LET max == (2 * st.threshold - 1) - st.remaining
        low == NCountPeek(bits, st, st.nbBits - 1)
        full == NCountPeek(bits, st, st.nbBits)
        small == low < max
        count == (IF small THEN low
                  ELSE IF full >= st.threshold THEN full - max ELSE full) - 1
    IN  Let(count, LAMBDA c :
        Let(NCountReadShrink([st EXCEPT
                 !.bitCount = @ + (IF small THEN st.nbBits - 1 ELSE st.nbBits),
                 !.remaining = @ - Abs(c),
                 !.norm = Append(@, c),
                 !.previous0 = (c = 0)]), LAMBDA a :
        IF a.ip <= iend - 7 \/ a.ip + (a.bitCount \div 8) <= iend - 4
        THEN NCountLoad([a EXCEPT !.bitCount = @ % 8], a.ip + (a.bitCount \div 8),
                        a.bitCount % 8)
        ELSE LET bc == a.bitCount - 8 * (iend - 4 - a.ip)
             IN  NCountLoad([a EXCEPT !.bitCount = bc], iend - 4, bc % 32)))

RECURSIVE NCountReadLoop(_, _, _, _)
NCountReadLoop(bits, st, iend, maxSV) ==
    IF st.err # NoError \/ ~(st.remaining > 1 /\ Len(st.norm) <= maxSV) THEN st
    ELSE Let(IF st.previous0 THEN NCountReadZeros(bits, st, iend, maxSV) ELSE st,
             LAMBDA z :
         IF z.err # NoError THEN z
         ELSE NCountReadLoop(bits, NCountReadSymbol(bits, z, iend), iend, maxSV))

\* FSE_readNCount: the normalized counters (symbols with a nonzero counter), the
\* alphabet's last symbol, tableLog and the header's size
FSE_readNCount(maxSV, headerBuffer) ==
    LET hbSize == Len(headerBuffer)
        bits == BitsOfBytes(headerBuffer)
        fail(e) == [err |-> e, norm |-> <<>>, maxSymbolValue |-> 0, tableLog |-> 0,
                    size |-> 0]
        nbBits == ValOf(SubSeq(bits, 1, 4)) + FSE_MIN_TABLELOG
        st0 == [ip |-> 0, bitCount |-> 4, ws |-> 4, we |-> 32, n0 |-> 0, norm |-> <<>>,
                remaining |-> Pow2(nbBits) + 1, threshold |-> Pow2(nbBits),
                nbBits |-> nbBits + 1, previous0 |-> FALSE, err |-> NoError]
        size(st) == st.ip + ((st.bitCount + 7) \div 8)
    IN  IF hbSize < 4 THEN fail("srcSize_wrong")
        ELSE IF nbBits > FSE_TABLELOG_ABSOLUTE_MAX THEN fail("tableLog_tooLarge")
        ELSE Let(NCountReadLoop(bits, st0, hbSize, maxSV), LAMBDA st :
        IF st.err # NoError THEN fail(st.err)
        ELSE IF st.remaining # 1 THEN fail("GENERIC")
        ELSE IF size(st) > hbSize THEN fail("srcSize_wrong")
        ELSE [err |-> NoError,
              norm |-> [s \in {i - 1 : i \in {j \in 1..Len(st.norm) : st.norm[j] # 0}}
                            |-> st.norm[s + 1]],
              maxSymbolValue |-> Len(st.norm) - 1, tableLog |-> nbBits,
              size |-> size(st)])

\* FSE_buildDTable: for each state its symbol, the number of bits to read and the base
\* of the next state
FSE_buildDTableU16(norm, maxSymbolValue, tableLog) ==
    LET tableSize == Pow2(tableLog)
        next(tableSymbol, u) ==
            (IF norm[tableSymbol[u]] = -1 THEN 1 ELSE norm[tableSymbol[u]])
            + Cardinality({v \in 0..(u - 1) : tableSymbol[v] = tableSymbol[u]})
        nbBitsOf(nextState) == tableLog - BIT_highbit32(nextState)
    IN  IF maxSymbolValue > FSE_MAX_SYMBOL_VALUE
        THEN [err |-> "maxSymbolValue_tooLarge", tableLog |-> tableLog, table |-> <<>>]
        ELSE IF tableLog > FSE_MAX_TABLELOG
        THEN [err |-> "tableLog_tooLarge", tableLog |-> tableLog, table |-> <<>>]
        ELSE IF SpreadEnd(norm, tableLog) # 0
        THEN [err |-> "GENERIC", tableLog |-> tableLog, table |-> <<>>]
        ELSE Let(SpreadSymbols(norm, tableLog), LAMBDA tableSymbol :
             [err |-> NoError, tableLog |-> tableLog,
              table |-> [u \in 0..(tableSize - 1) |->
                            Let(next(tableSymbol, u), LAMBDA nextState :
                            [symbol |-> tableSymbol[u], nbBits |-> nbBitsOf(nextState),
                             newState |-> nextState * Pow2(nbBitsOf(nextState))
                                          - tableSize])]])

\* BIT_initDStream: the container holds the last 8 bytes (the whole buffer, zero
\* extended, when shorter); bitsConsumed skips the zero bits above the final 1 bit
BIT_initDStream(src) ==
    LET srcSize == Len(src)
        lastByte == src[srcSize]
    IN  IF srcSize < 1 THEN [err |-> "srcSize_wrong", ptr |-> 0, bitsConsumed |-> 0]
        ELSE IF lastByte = 0 THEN [err |-> "GENERIC", ptr |-> 0, bitsConsumed |-> 0]
        ELSE IF srcSize >= ContainerBits \div 8
        THEN [err |-> NoError, ptr |-> srcSize - ContainerBits \div 8,
              bitsConsumed |-> 8 - BIT_highbit32(lastByte)]
        ELSE [err |-> NoError, ptr |-> 0,
              bitsConsumed |-> 8 - BIT_highbit32(lastByte)
                               + (ContainerBits \div 8 - srcSize) * 8]

\* BIT_lookBits: ((container << (bitsConsumed & 63)) >> 1) >> ((63 - nbBits) & 63),
\* container being the 8 bytes at ptr
BIT_lookBits(bits, bitD, nbBits) ==
    LET c == bitD.bitsConsumed % ContainerBits
    IN  ValOf([i \in 1..nbBits |->
                 LET j == ContainerBits - c - nbBits + (i - 1)
                 IN  IF j < 0 \/ 8 * bitD.ptr + j + 1 > Len(bits) THEN 0
                     ELSE bits[8 * bitD.ptr + j + 1]])

\* BIT_readBits: look, then skip
BIT_readBits(bits, bitD, nbBits) ==
    [value |-> BIT_lookBits(bits, bitD, nbBits),
     bitD |-> [bitD EXCEPT !.bitsConsumed = @ + nbBits]]

\* BIT_reloadDStream: move the container back by the whole bytes consumed
BIT_reloadDStream(bitD) ==
    IF bitD.bitsConsumed > ContainerBits THEN [status |-> "overflow", bitD |-> bitD]
    ELSE IF bitD.ptr >= ContainerBits \div 8
    THEN [status |-> "unfinished",
          bitD |-> [bitD EXCEPT !.ptr = @ - (bitD.bitsConsumed \div 8),
                                !.bitsConsumed = @ % 8]]
    ELSE IF bitD.ptr = 0
    THEN [status |-> IF bitD.bitsConsumed < ContainerBits THEN "endOfBuffer"
                     ELSE "completed",
          bitD |-> bitD]
    ELSE LET nbBytes == Min(bitD.bitsConsumed \div 8, bitD.ptr)
         IN  [status |-> IF bitD.bitsConsumed \div 8 > bitD.ptr THEN "endOfBuffer"
                         ELSE "unfinished",
              bitD |-> [bitD EXCEPT !.ptr = @ - nbBytes, !.bitsConsumed = @ - nbBytes * 8]]

\* FSE_initDState: the first state is tableLog bits of the stream
FSE_initDState(bits, bitD, dt) ==
    LET r == BIT_readBits(bits, bitD, dt.tableLog)
    IN  [state |-> r.value, bitD |-> BIT_reloadDStream(r.bitD).bitD]

\* FSE_decodeSymbolU16 on state k (1 or 2) of d: the state's symbol is appended to the
\* output and the state moves by the bits read; by lists the state each output came from
FSE_decodeSymbolU16(bits, d, dt, k) ==
    LET DInfo == dt.table[d.state[k]]
        r == BIT_readBits(bits, d.bitD, DInfo.nbBits)
    IN  [d EXCEPT !.out = Append(@, DInfo.symbol),
                  !.by = Append(@, k),
                  !.state[k] = DInfo.newState + r.value,
                  !.bitD = r.bitD]

\* the "4 symbols per loop" part of FSE_decompressU16_usingDTable
RECURSIVE DecodeLoop4(_, _, _, _)
DecodeLoop4(bits, d, dt, maxDstSize) ==
    LET r == BIT_reloadDStream(d.bitD)
        d0 == [d EXCEPT !.bitD = r.bitD]
        d1 == FSE_decodeSymbolU16(bits, d0, dt, 1)
        d2 == FSE_decodeSymbolU16(bits, d1, dt, 2)
        d3 == FSE_decodeSymbolU16(bits, d2, dt, 1)
        d4 == FSE_decodeSymbolU16(bits, d3, dt, 2)
    IN  IF r.status = "unfinished" /\ Len(d.out) < maxDstSize - 3
        THEN DecodeLoop4(bits, d4, dt, maxDstSize)
        ELSE d0

\* the tail of FSE_decompressU16_usingDTable: one symbol at a time, states alternating,
\* until the stream overflows
RECURSIVE DecodeTail(_, _, _, _, _)
DecodeTail(bits, d, dt, maxDstSize, k) ==
    IF Len(d.out) > maxDstSize - 2 THEN [d EXCEPT !.err = "dstSize_tooSmall"]
    ELSE LET d1 == FSE_decodeSymbolU16(bits, d, dt, k)
             r == BIT_reloadDStream(d1.bitD)
             d2 == [d1 EXCEPT !.bitD = r.bitD]
         IN  IF r.status = "overflow" THEN FSE_decodeSymbolU16(bits, d2, dt, 3 - k)
             ELSE DecodeTail(bits, d2, dt, maxDstSize, 3 - k)

\* FSE_decompressU16_usingDTable: out is what was written to dst, in order
FSE_decompressU16_usingDTable(maxDstSize, cSrc, dt) ==
    Let(BitsOfBytes(cSrc), LAMBDA bits :
    Let(BIT_initDStream(cSrc), LAMBDA init :
        IF init.err # NoError THEN [err |-> init.err, ret |-> 0, out |-> <<>>, by |-> <<>>]
        ELSE
    Let(FSE_initDState(bits, [ptr |-> init.ptr, bitsConsumed |-> init.bitsConsumed], dt),
        LAMBDA s1 :
    Let(FSE_initDState(bits, s1.bitD, dt), LAMBDA s2 :
    Let([out |-> <<>>, by |-> <<>>, state |-> <<s1.state, s2.state>>, bitD |-> s2.bitD,
         err |-> NoError], LAMBDA d0 :
    Let(DecodeTail(bits, DecodeLoop4(bits, d0, dt, maxDstSize), dt, maxDstSize, 1),
        LAMBDA d :
        [err |-> d.err, ret |-> Len(d.out), out |-> d.out, by |-> d.by]))))))

\* FSE_decompressU16
FSE_decompressU16(maxDstSize, cSrc) ==
    LET cSrcSize == Len(cSrc)
        fail(e) == [err |-> e, ret |-> 0, out |-> <<>>, by |-> <<>>]
    IN  IF cSrcSize < 2 THEN fail("srcSize_wrong")
        ELSE Let(FSE_readNCount(FSE_MAX_SYMBOL_VALUE, cSrc), LAMBDA hdr :
        IF hdr.err # NoError THEN fail(hdr.err)
        ELSE Let(FSE_buildDTableU16(hdr.norm, hdr.maxSymbolValue, hdr.tableLog),
                 LAMBDA dt :
        IF dt.err # NoError THEN fail(dt.err)
        ELSE FSE_decompressU16_usingDTable(maxDstSize,
                 SubSeq(cSrc, hdr.size + 1, cSrcSize), dt)))

(***************************************************************************)
(* vidpak/pack.c: the predictor and the tile coder.  Memory is a sequence  *)
(* of cells addressed by a 0-based offset; a pointer is an offset.         *)
(***************************************************************************)

\* mem with vals stored from offset off on
WriteAt(mem, off, vals) ==
    LET n == Min(Len(vals), Len(mem) - off)
    IN  IF n <= 0 THEN mem
        ELSE SubSeq(mem, 1, off) \o SubSeq(vals, 1, n) \o SubSeq(mem, off + n + 1, Len(mem))

\* a variant of StoreAll that leaves out the first store
StoreAll_tail(mem, offs, vals) ==
    [i \in 1..Len(mem) |->
        LET hits == {j \in 2..Len(offs) : offs[j] = i - 1}
        IN  IF hits = {} THEN mem[i] ELSE vals[SetMax(hits)]]

\* mem after storing vals[j] at offset offs[j], for j = 1, 2, ... in this order
StoreAll(mem, offs, vals) ==
    [i \in 1..Len(mem) |->
        LET hits == {j \in 1..Len(offs) : offs[j] = i - 1}
        IN  IF hits = {} THEN mem[i] ELSE vals[SetMax(hits)]]

\* a variant of delta_encode_12bit that keeps the pixel's bits above the twelfth
delta_encode_12bit_wide(pix, pred) == ((pix - pred) % 4096) + 4096 * (pix \div 4096)

\* encode the delta given a pixel and a prediction
delta_encode_12bit(pix, pred) == (pix - pred) % 4096

\* a variant of delta_decode_12bit that subtracts the prediction
delta_decode_12bit_minus(delta, pred) == (delta - pred) % 4096

\* decode the pixel given a delta and a prediction
delta_decode_12bit(delta, pred) == (delta + pred) % 4096

\* size_t sheight = (height+3)/4
SliceRows(height) == (height + 3) \div 4

\* size_t slices = (height < 4) ? height : 4
SliceCount(height) == IF height < 4 THEN height ELSE 4

\* a variant of SliceHeight that gives every slice sheight rows
SliceHeight_even(height, k) ==
    SliceRows(height)

\* h0..h3: sheight-((height&3)<=k && (height&3))
SliceHeight(height, k) ==
    SliceRows(height) - (IF (height % 4) <= k /\ (height % 4) # 0 THEN 1 ELSE 0)

\* the first row of slice k: 0, h0, h0+h1, h0+h1+h2
SliceStart(height, k) == SumSeq([j \in 1..k |-> SliceHeight(height, j - 1)])

\* s0..s3: whether slice k has a row y
SliceActive(height, y, k) ==
    (y < SliceRows(height) - 1) \/ ((height % 4) > k) \/ ((height % 4) = 0)

\* the pixels in the order the loops visit them after the seeds: the first row of
\* every slice column by column, then row y of every active slice, column by column
ResidualOrder(width, height) ==
    LET slices == SliceCount(height)
        row0 == Flatten([x \in 1..(width - 1) |->
                    [j \in 1..slices |-> [k |-> j - 1, x |-> x, y |-> 0]]])
        act(y) == SortedSeq({k \in 0..3 : SliceActive(height, y, k)})
        rowy(y) == Flatten([c \in 1..width |->
                    [j \in 1..Len(act(y)) |-> [k |-> act(y)[j], x |-> c - 1, y |-> y]]])
    IN  row0 \o Flatten([y \in 1..(SliceRows(height) - 1) |-> rowy(y)])

\* a variant of ResidualIndex with o starting at 0
ResidualIndex_fromzero(order, slices) ==
    [i \in 1..Len(order) |->
        LET before == {j \in 1..(i - 1) : order[j].x = order[i].x /\ order[j].y = order[i].y}
            o == (i - 1) - Cardinality(before)
        IN  o + order[i].k]

\* the cell of diff each residual is stored in, diff[o+k] for slice k: o starts at
\* slices and moves on, after each column, by the number of slices that are active
ResidualIndex(order, slices) ==
    [i \in 1..Len(order) |->
        LET before == {j \in 1..(i - 1) : order[j].x = order[i].x /\ order[j].y = order[i].y}
            o == slices + (i - 1) - Cardinality(before)
        IN  o + order[i].k]

\* the offset of pixel (x, y) of slice k from the tile's first pixel
PixelOffset(height, e, dx, dy) == dy * (SliceStart(height, e.k) + e.y) + dx * e.x

\* a variant of Predict without the left neighbour in the first row of a slice
Predict_top(mem, at, e, dx, dy) ==
    IF e.y = 0 THEN 0
    ELSE IF e.x = 0 THEN mem[at - dy + 1]
    ELSE (mem[at - dx + 1] + mem[at - dy + 1]) \div 2

\* the prediction of a pixel from its already known neighbours in mem: the left one in
\* the first row of a slice, the top one in the first column, else their average
Predict(mem, at, e, dx, dy) ==
    IF e.y = 0 THEN mem[at - dx + 1]
    ELSE IF e.x = 0 THEN mem[at - dy + 1]
    ELSE (mem[at - dx + 1] + mem[at - dy + 1]) \div 2

\* a variant of Pixel12Bytes with the high byte first
Pixel12Bytes_be(p) == << (p \div 256) % 16, p % 256 >>

\* the low byte and the low 4 bits of the high byte of a pixel
Pixel12Bytes(p) == << p % 256, (p \div 256) % 16 >>

\* what pack_12bit_average tells of a tile: the branch it took after FSE_compressU16
\* (form), the compressor's return value and error, the symbols the compressor walked
\* (walk), the cells of diff that were stored into, in order (at), and the number of
\* bytes from dest on that were stored into (reach)
PackTold(form, fse, at, reach, width, height) ==
    [form |-> form, err |-> fse.err, ret |-> fse.ret, walk |-> fse.body, at |-> at,
     reach |-> reach, width |-> width, height |-> height]

\* the compressor was not called
NoFSE == [err |-> NoError, ret |-> 0, bytes |-> <<>>, reach |-> 0, body |-> NoWalk]

\* the room FSE_compressU16 is given at dest+sb: a raw payload's bytes less the seeds
DstSize_whole(bytes, sb) == bytes

DstSize(bytes, sb) == bytes - sb

\* pack_12bit_average: ret is the return value, bytes the payload, touched what was
\* stored from dest on (the payload and, after the bit stream, the rest of its last
\* container), diff the scratch buffer afterwards, told what the call did
pack_12bit_average(width, height, diff, src, base, dx, dy) ==
    LET pixels == width * height
        bytes == 2 * pixels
        slices == SliceCount(height)
        heights == SumSeq([j \in 1..4 |-> SliceHeight(height, j - 1)])
        seeds == [j \in 1..(2 * slices) |->
                     Pixel12Bytes(src[base + dy * SliceStart(height, (j - 1) \div 2) + 1])
                         [((j - 1) % 2) + 1]]
        resid(order) ==
            [i \in 1..Len(order) |->
                Let(base + PixelOffset(height, order[i], dx, dy), LAMBDA at :
                    delta_encode_12bit(src[at + 1], Predict(src, at, order[i], dx, dy)))]
        sb == 2 * slices
        raw == [j \in 1..bytes |->
                   Pixel12Bytes(src[base + dy * (((j - 1) \div 2) \div width)
                                         + dx * (((j - 1) \div 2) % width) + 1])
                       [((j - 1) % 2) + 1]]
    IN  IF height = 0 \/ width = 0
        THEN [ret |-> 0, bytes |-> <<>>, touched |-> <<>>, diff |-> diff,
              told |-> PackTold("fail", NoFSE, <<>>, 0, width, height)]
        ELSE IF heights # height
        THEN [ret |-> 0, bytes |-> <<>>, touched |-> <<>>, diff |-> diff,
              told |-> PackTold("fail", NoFSE, <<>>, 0, width, height)]
        ELSE Let(seeds, LAMBDA first :
             Let(ResidualOrder(width, height), LAMBDA order :
             Let(ResidualIndex(order, slices), LAMBDA at :
             Let(StoreAll(diff, at, resid(order)), LAMBDA diff1 :
             Let(FSE_compressU16(DstSize(bytes, sb), SubSeq(diff1, slices + 1, pixels), 4095, 0),
                 LAMBDA fse :
             Let(IF fse.err = "dstSize_tooSmall" THEN 0 ELSE fse.ret, LAMBDA ret :
             Let(sb + fse.reach, LAMBDA reach :
        IF fse.err # NoError /\ fse.err # "dstSize_tooSmall"
        THEN [ret |-> 0, bytes |-> <<>>, touched |-> first, diff |-> diff1,
              told |-> PackTold("fail", fse, at, reach, width, height)]
        ELSE IF ret = 1
        THEN Let(first \o << diff1[slices + 1] % 256, diff1[slices + 1] \div 256 >>,
                 LAMBDA rle :
                 [ret |-> sb + 2, bytes |-> rle, touched |-> rle, diff |-> diff1,
                  told |-> PackTold("rle", fse, at, Max(reach, sb + 2), width, height)])
        ELSE IF ret = 0
        THEN Let(raw, LAMBDA all :
                 [ret |-> bytes, bytes |-> all, touched |-> all, diff |-> diff1,
                  told |-> PackTold("raw", fse, at, Max(reach, bytes), width, height)])
        ELSE [ret |-> sb + ret, bytes |-> first \o fse.bytes,
              touched |-> first \o fse.bytes \o Repeat(0, ContainerBits \div 8 - 1),
              diff |-> diff1,
              told |-> PackTold("fse", fse, at, reach, width, height)])))))))

\* the loops of unpack_12bit_average after the seeds: each pixel is decoded from its
\* residual and the prediction (the left pixel is kept in l0..l3, the top one is read
\* back from dest) and stored
RECURSIVE UnpackLoop(_, _, _, _, _, _, _, _)
UnpackLoop(st, order, height, diff, base, dx, dy, n) ==
    IF n = 0 \/ st.i > Len(order) THEN st
    ELSE IF n > 1
    THEN UnpackLoop(UnpackLoop(st, order, height, diff, base, dx, dy, n \div 2),
                    order, height, diff, base, dx, dy, n - (n \div 2))
    ELSE LET e == order[st.i]
             pred(at) == IF e.y = 0 THEN st.l[e.k]
                         ELSE IF e.x = 0 THEN st.dest[at - dy + 1]
                         ELSE (st.l[e.k] + st.dest[at - dy + 1]) \div 2
         IN  Let(base + PixelOffset(height, e, dx, dy), LAMBDA at :
             Let(delta_decode_12bit(diff[SliceCount(height) + st.i], pred(at)),
                 LAMBDA pix :
             [i |-> st.i + 1,
              dest |-> WriteAt(st.dest, at, <<pix>>),
              l |-> [st.l EXCEPT ![e.k] = pix]]))

\* what unpack_12bit_average tells of a tile: the branch src_size selected (form), the
\* decompressor's error and the residuals it produced, with the state each came from
\* (got, by), the number of residuals the tile needs (need), and whether the length
\* handed to the decompressor, src_size-sb in a size_t, wrapped around (wrapped)
UnpackTold(form, fse, wrapped, src_size, width, height) ==
    [form |-> form, err |-> fse.err, got |-> Len(fse.out), by |-> fse.by,
     need |-> width * height - (IF height < 4 THEN height ELSE 4),
     wrapped |-> wrapped, size |-> src_size, width |-> width, height |-> height]

\* a variant of Word16 with the bytes the other way round
Word16_swapped(l, h) == l * 256 + h

\* the u16 of two payload bytes, (h << 8) | l
Word16(l, h) == h * 256 + l

\* the branch of unpack_12bit_average that the payload length selects: the length of a
\* run-length payload is tested first, then the length of a raw one
PayloadForm_full(src_size, sb, bytes) ==
    IF src_size = 10 THEN "rle" ELSE IF src_size = bytes THEN "raw" ELSE "fse"

PayloadForm(src_size, sb, bytes) ==
    IF src_size = sb + 2 THEN "rle" ELSE IF src_size = bytes THEN "raw" ELSE "fse"

\* the decompressor was not called
NoDecode == [err |-> NoError, ret |-> 0, out |-> <<>>, by |-> <<>>]

\* unpack_12bit_average on the src_size bytes of src from offset spos on; ret is the
\* return value, dest and diff the destination and the scratch buffer afterwards, told
\* what the call did.  When src_size is smaller than the seed bytes and selects the
\* compressed branch, src_size-sb wraps around to a length near SIZE_MAX and the
\* decompressor reads memory outside the src_size bytes: the call is followed up to
\* there (wrapped) and what comes after is left to the caller of this operator.
unpack_12bit_average(width, height, diff, src, spos, src_size, dest, base, dx, dy) ==
    LET pixels == width * height
        bytes == 2 * pixels
        slices == SliceCount(height)
        sb == 2 * slices
        heights == SumSeq([j \in 1..4 |-> SliceHeight(height, j - 1)])
        v == Word16(src[spos + sb + 1], src[spos + sb + 2])
        rawDest == StoreAll(dest,
                      [j \in 1..pixels |-> base + dy * ((j - 1) \div width)
                                                + dx * ((j - 1) % width)],
                      [j \in 1..pixels |-> Word16(src[spos + 2 * j - 1], src[spos + 2 * j])])
        seed(k) == Word16(src[spos + 2 * k + 1], src[spos + 2 * k + 2])
        dest0 == StoreAll(dest, [j \in 1..slices |-> base + dy * SliceStart(height, j - 1)],
                          [j \in 1..slices |-> seed(j - 1)])
        form == PayloadForm(src_size, sb, bytes)
        told(f, fse) == UnpackTold(f, fse, FALSE, src_size, width, height)
    IN  IF height = 0 \/ width = 0
        THEN [ret |-> 0, dest |-> dest, diff |-> diff, told |-> told("none", NoDecode)]
        ELSE IF src_size = 0
        THEN [ret |-> 0, dest |-> dest, diff |-> diff, told |-> told("none", NoDecode)]
        ELSE IF form = "raw"
        THEN [ret |-> 1, dest |-> rawDest, diff |-> diff, told |-> told("raw", NoDecode)]
        ELSE IF form = "fse" /\ src_size < sb
        THEN [ret |-> 0, dest |-> dest, diff |-> diff,
              told |-> UnpackTold("fse", NoDecode, TRUE, src_size, width, height)]
        ELSE Let(IF form = "rle"
                 THEN [err |-> NoError, out |-> Repeat(v, pixels - slices), by |-> <<>>]
                 ELSE FSE_decompressU16(pixels - slices,
                                        SubSeq(src, spos + sb + 1, spos + src_size)),
                 LAMBDA fse :
             Let(WriteAt(diff, slices, fse.out), LAMBDA diff1 :
             Let(told(form, fse), LAMBDA t :
        IF fse.err # NoError THEN [ret |-> 0, dest |-> dest, diff |-> diff1, told |-> t]
        ELSE IF heights # height
        THEN [ret |-> 0, dest |-> dest, diff |-> diff1, told |-> t]
        ELSE [ret |-> 1,
              dest |-> UnpackLoop([i |-> 1, dest |-> dest0,
                                   l |-> [k \in 0..3 |-> IF k < slices THEN seed(k) ELSE 0]],
                                  ResidualOrder(width, height), height, diff1,
                                  base, dx, dy, pixels).dest,
              diff |-> diff1, told |-> t])))

(***************************************************************************)
(* vidpak/pack.c: contexts and whole frames                                *)
(***************************************************************************)

\* the null pointer
NULL == <<>>

\* a variant of pack_create_context that refuses a tile size that does not divide the
\* frame
pack_create_context_divides(width, height, bpp, twidth, theight) ==
    IF width <= 0 \/ height <= 0 \/ bpp <= 0 THEN NULL
    ELSE IF twidth <= 0 \/ theight <= 0 THEN NULL
    ELSE IF twidth > width \/ theight > height THEN NULL
    ELSE IF width % twidth # 0 \/ height % theight # 0 THEN NULL
    ELSE [width |-> width, height |-> height, twidth |-> twidth, theight |-> theight,
          bpp |-> bpp,
          diff |-> Repeat(0, (twidth * theight * ((bpp + 7) \div 8)) \div 2)]

\* pack_create_context: NULL, or a context with a zeroed diff buffer of
\* twidth*theight*((bpp+7)/8) bytes (seen as 16 bit cells)
pack_create_context(width, height, bpp, twidth, theight) ==
    IF width <= 0 \/ height <= 0 \/ bpp <= 0 THEN NULL
    ELSE IF twidth <= 0 \/ theight <= 0 THEN NULL
    ELSE IF twidth > width \/ theight > height THEN NULL
    ELSE [width |-> width, height |-> height, twidth |-> twidth, theight |-> theight,
          bpp |-> bpp,
          diff |-> Repeat(0, (twidth * theight * ((bpp + 7) \div 8)) \div 2)]

\* a variant of TileCount that counts the tiles of one row of tiles only
TileCount_across(ctx) == (ctx.width + ctx.twidth - 1) \div ctx.twidth

\* the number of entries of the tile size table
TileCount(ctx) ==
    ((ctx.width + ctx.twidth - 1) \div ctx.twidth)
    * ((ctx.height + ctx.theight - 1) \div ctx.theight)

\* a variant of pack_calc_max_packed_size that leaves the tile size table out
pack_calc_max_packed_size_notable(ctx) ==
    IF ctx = NULL THEN 0
    ELSE ctx.width * ctx.height * ((ctx.bpp + 7) \div 8)

\* pack_calc_max_packed_size
pack_calc_max_packed_size(ctx) ==
    IF ctx = NULL THEN 0
    ELSE ctx.width * ctx.height * ((ctx.bpp + 7) \div 8) + 4 * TileCount(ctx)

\* the tiles in the order of the two loops: ty outer, tx inner
TileOrigins(ctx) ==
    LET across == (ctx.width + ctx.twidth - 1) \div ctx.twidth
    IN  [t \in 1..TileCount(ctx) |-> [tx |-> ((t - 1) % across) * ctx.twidth,
                                      ty |-> ((t - 1) \div across) * ctx.theight]]

\* a variant of LE32 with the most significant byte first
LE32_be(size) == << (size \div 16777216) % 256, (size \div 65536) % 256,
                    (size \div 256) % 256, size % 256 >>

\* a size as 4 little-endian bytes
LE32(size) == << size % 256, (size \div 256) % 256, (size \div 65536) % 256,
                 (size \div 16777216) % 256 >>

\* the tile loop of pack_with_context, st.tile tiles done
RECURSIVE PackTiles(_, _, _, _, _)
PackTiles(st, ctx, src, dx, dy) ==
    IF st.tile >= TileCount(ctx) THEN [st EXCEPT !.ret = st.dest_pos]
    ELSE Let(TileOrigins(ctx)[st.tile + 1], LAMBDA o :
         Let(pack_12bit_average(Min(ctx.twidth, ctx.width - o.tx),
                                Min(ctx.theight, ctx.height - o.ty),
                                st.diff, src, o.ty * dy + o.tx * dx, dx, dy), LAMBDA r :
         Let(WriteAt(st.dest, st.dest_pos, r.touched), LAMBDA stored :
         IF r.ret = 0
         THEN [st EXCEPT !.ret = 0, !.dest = stored, !.diff = r.diff,
                         !.starts = Append(@, st.dest_pos), !.told = Append(@, r.told)]
         ELSE PackTiles([tile |-> st.tile + 1,
                         ret |-> 0,
                         dest |-> WriteAt(stored, 4 * st.tile, LE32(r.ret)),
                         diff |-> r.diff,
                         dest_pos |-> st.dest_pos + r.ret,
                         starts |-> Append(st.starts, st.dest_pos),
                         told |-> Append(st.told, r.told)],
                        ctx, src, dx, dy))))

\* a variant of pack_with_context without the test of the strides
pack_with_context_anystride(ctx, src, dest, dx, dy) ==
    IF ctx = NULL \/ src = NULL \/ dest = NULL
    THEN [tile |-> 0, ret |-> 0, dest |-> dest,
          diff |-> IF ctx = NULL THEN <<>> ELSE ctx.diff, dest_pos |-> 0, starts |-> <<>>,
          told |-> <<>>]
    ELSE IF ctx.bpp # 12
    THEN [tile |-> 0, ret |-> 0, dest |-> dest, diff |-> ctx.diff, dest_pos |-> 0,
          starts |-> <<>>, told |-> <<>>]
    ELSE PackTiles([tile |-> 0, ret |-> 0, dest |-> dest, diff |-> ctx.diff,
                    dest_pos |-> 4 * TileCount(ctx), starts |-> <<>>, told |-> <<>>],
                   ctx, src, dx, dy)

\* pack_with_context: ret is the return value, dest and diff the destination and the
\* scratch buffer afterwards, starts the value of dest_pos handed to each tile, told
\* what pack_12bit_average did for each
pack_with_context(ctx, src, dest, dx, dy) ==
    IF ctx = NULL \/ src = NULL \/ dest = NULL
    THEN [tile |-> 0, ret |-> 0, dest |-> dest,
          diff |-> IF ctx = NULL THEN <<>> ELSE ctx.diff, dest_pos |-> 0, starts |-> <<>>,
          told |-> <<>>]
    ELSE IF ctx.bpp # 12 \/ dx = 0 \/ dy = 0
    THEN [tile |-> 0, ret |-> 0, dest |-> dest, diff |-> ctx.diff, dest_pos |-> 0,
          starts |-> <<>>, told |-> <<>>]
    ELSE PackTiles([tile |-> 0, ret |-> 0, dest |-> dest, diff |-> ctx.diff,
                    dest_pos |-> 4 * TileCount(ctx), starts |-> <<>>, told |-> <<>>],
                   ctx, src, dx, dy)

\* the tile loop of unpack_with_context, st.tile tiles done
RECURSIVE UnpackTiles(_, _, _, _, _, _)
UnpackTiles(st, ctx, src, src_size, dx, dy) ==
    IF st.tile >= TileCount(ctx) THEN [st EXCEPT !.ret = 1]
    ELSE Let(TileOrigins(ctx)[st.tile + 1], LAMBDA o :
         Let(src[4 * st.tile + 1] + 256 * src[4 * st.tile + 2]
             + 65536 * src[4 * st.tile + 3] + 16777216 * src[4 * st.tile + 4],
             LAMBDA size :
         IF size > src_size - st.src_pos THEN [st EXCEPT !.ret = 0]
         ELSE Let(unpack_12bit_average(Min(ctx.twidth, ctx.width - o.tx),
                                       Min(ctx.theight, ctx.height - o.ty),
                                       st.diff, src, st.src_pos, size, st.dest,
                                       o.ty * dy + o.tx * dx, dx, dy), LAMBDA r :
         IF r.ret # 1
         THEN [st EXCEPT !.ret = 0, !.dest = r.dest, !.diff = r.diff,
                         !.told = Append(@, r.told)]
         ELSE UnpackTiles([tile |-> st.tile + 1, ret |-> 0, dest |-> r.dest,
                           diff |-> r.diff, src_pos |-> st.src_pos + size,
                           told |-> Append(st.told, r.told)],
                          ctx, src, src_size, dx, dy))))

\* a variant of unpack_with_context that takes the source to be as long as the table
\* and the tile sizes say
unpack_with_context_trusting(ctx, src, src_size, dest, dx, dy) ==
    IF ctx = NULL \/ src = NULL \/ dest = NULL
    THEN [tile |-> 0, ret |-> 0, dest |-> dest,
          diff |-> IF ctx = NULL THEN <<>> ELSE ctx.diff, src_pos |-> 0, told |-> <<>>]
    ELSE IF ctx.bpp # 12 \/ src_size = 0 \/ dx = 0 \/ dy = 0
    THEN [tile |-> 0, ret |-> 0, dest |-> dest, diff |-> ctx.diff, src_pos |-> 0,
          told |-> <<>>]
    ELSE UnpackTiles([tile |-> 0, ret |-> 0, dest |-> dest, diff |-> ctx.diff,
                      src_pos |-> 4 * TileCount(ctx), told |-> <<>>],
                     ctx, src, Len(src), dx, dy)

\* unpack_with_context: ret is the return value, dest and diff the destination and the
\* scratch buffer afterwards, told what unpack_12bit_average did for each tile
unpack_with_context(ctx, src, src_size, dest, dx, dy) ==
    IF ctx = NULL \/ src = NULL \/ dest = NULL
    THEN [tile |-> 0, ret |-> 0, dest |-> dest,
          diff |-> IF ctx = NULL THEN <<>> ELSE ctx.diff, src_pos |-> 0, told |-> <<>>]
    ELSE IF ctx.bpp # 12 \/ src_size = 0 \/ dx = 0 \/ dy = 0
    THEN [tile |-> 0, ret |-> 0, dest |-> dest, diff |-> ctx.diff, src_pos |-> 0,
          told |-> <<>>]
    ELSE IF 4 * TileCount(ctx) > src_size
    THEN [tile |-> 0, ret |-> 0, dest |-> dest, diff |-> ctx.diff,
          src_pos |-> 4 * TileCount(ctx), told |-> <<>>]
    ELSE UnpackTiles([tile |-> 0, ret |-> 0, dest |-> dest, diff |-> ctx.diff,
                      src_pos |-> 4 * TileCount(ctx), told |-> <<>>],
                     ctx, src, src_size, dx, dy)

(***************************************************************************)
(* The caller: one context at a time, a video whose frames are packed one  *)
(* after the other into a buffer of pack_calc_max_packed_size bytes, each  *)
(* packed frame unpacked again (as in c_example/example.c).                *)
(***************************************************************************)

VARIABLES ctx, args, frameNo, src, dx, dy, dest, packRet, starts,
          out, srcLen, unpackRet, maxRet, call, op, packTold, unpackTold

vars == << ctx, args, frameNo, src, dx, dy, dest, packRet, starts,
           out, srcLen, unpackRet, maxRet, call, op, packTold, unpackTold >>

\* no value yet
None == 0 - 1

\* the frames of the video: pixel (x, y) is lo + (a*(x + W*y) + c*x*y) / d, modulo 2^12
\* (a 12 bit video) or modulo 2^16 (a video with pixels of more than 12 bits)
NumFrames == (MaxSlope + 1) * (MaxTwist + 1) * 2 * 3

FrameParams(f) ==
    [a |-> f % (MaxSlope + 1),
     c |-> (f \div (MaxSlope + 1)) % (MaxTwist + 1),
     d |-> IF (f \div ((MaxSlope + 1) * (MaxTwist + 1))) % 2 = 0 THEN 1 ELSE MaxDiv,
     lo |-> IF f \div ((MaxSlope + 1) * (MaxTwist + 1) * 2) = 0 THEN 0 ELSE 4090,
     wide |-> f \div ((MaxSlope + 1) * (MaxTwist + 1) * 2) = 2]

FramePixel(f, width, x, y) ==
    LET p == FrameParams(f)
    IN  (p.lo + (p.a * (x + width * y) + p.c * x * y) \div p.d)
        % (IF p.wide THEN 65536 ELSE 4096)

\* the frame laid out in memory with strides sx and sy; cells between pixels hold None
FrameMemory(f, width, height, sx, sy) ==
    StoreAll(Repeat(None, (width - 1) * sx + (height - 1) * sy + 1),
             [j \in 1..(width * height) |-> sx * ((j - 1) % width) + sy * ((j - 1) \div width)],
             [j \in 1..(width * height) |->
                  FramePixel(f, width, (j - 1) % width, (j - 1) \div width)])

\* the strides the caller uses: row-major and column-major
Strides(width, height) == { <<1, width>>, <<height, 1>> }

\* the arguments the caller tries: a frame of MaxW columns and of half, nearly all or
\* all of MaxH rows, tiles that divide it or not, as large as it or larger, depths
\* supported or not, and a zero for each argument
Widths == {0, MaxW}
Heights == {0, MaxH \div 2, MaxH - 2, MaxH}
TileWidths(width) == {0, width - 1, width, width + 1}
TileHeights(height) == {0, 3, 4, MaxH}
Depths == {0, 8, 12}

Init ==
    /\ ctx = NULL
    /\ args = <<>>
    /\ frameNo = None
    /\ src = NULL
    /\ dx = 0
    /\ dy = 0
    /\ dest = NULL
    /\ packRet = None
    /\ starts = <<>>
    /\ out = NULL
    /\ srcLen = None
    /\ unpackRet = None
    /\ maxRet = None
    /\ call = <<>>
    /\ op = "init"
    /\ packTold = <<>>
    /\ unpackTold = <<>>

\* pack_create_context(width, height, bpp, twidth, theight)
Create ==
    /\ op \in {"init", "destroy"}
    /\ \E width \in Widths, height \in Heights, bpp \in Depths :
       \E twidth \in TileWidths(width), theight \in TileHeights(height) :
          /\ ctx' = pack_create_context(width, height, bpp, twidth, theight)
          /\ args' = << width, height, bpp, twidth, theight >>
    /\ frameNo' = None
    /\ src' = NULL
    /\ dx' = 0
    /\ dy' = 0
    /\ dest' = NULL
    /\ packRet' = None
    /\ starts' = <<>>
    /\ out' = NULL
    /\ srcLen' = None
    /\ unpackRet' = None
    /\ maxRet' = None
    /\ call' = <<>>
    /\ op' = "create"
    /\ packTold' = <<>>
    /\ unpackTold' = <<>>

\* pack_calc_max_packed_size(ctx)
CalcMax ==
    /\ op \in {"create", "pack", "unpack"}
    /\ maxRet' = pack_calc_max_packed_size(ctx)
    /\ UNCHANGED << ctx, args, frameNo, src, dx, dy, dest, packRet, starts,
                    out, srcLen, unpackRet, call, op, packTold, unpackTold >>

\* pack_destroy_context(ctx); the caller releases its buffers with the context
Destroy ==
    /\ op \in {"create", "pack", "unpack"}
    /\ ctx' = NULL
    /\ args' = <<>>
    /\ frameNo' = None
    /\ src' = NULL
    /\ dx' = 0
    /\ dy' = 0
    /\ dest' = NULL
    /\ packRet' = None
    /\ starts' = <<>>
    /\ out' = NULL
    /\ srcLen' = None
    /\ unpackRet' = None
    /\ maxRet' = None
    /\ call' = <<>>
    /\ op' = "destroy"
    /\ packTold' = <<>>
    /\ unpackTold' = <<>>

\* the ways a call passes its pointers and strides: as they are, or one of them null
\* or zero
CallKinds == {"ok", "ctx", "src", "dest", "dx", "dy"}

\* pack_with_context(ctx, src, dest, dx, dy) on the next frame of the video, frame 0
\* first, dest being a fresh buffer of the size pack_calc_max_packed_size returned (its
\* size "MUST BE at least" that, so the caller asks first).  A call that passes a
\* null pointer or a zero stride, or a context that is null or of another depth, is
\* tried on frame 0 in row-major order.
Pack ==
    /\ op = "create" \/ (op = "unpack" /\ unpackRet = 1 /\ frameNo < NumFrames - 1)
    /\ maxRet # None
    /\ \E kind \in CallKinds, f \in { frameNo + 1 } :
       \E st \in (IF ctx = NULL THEN { <<1, 1>> }
                  ELSE IF frameNo # None THEN { <<dx, dy>> }
                  ELSE Strides(ctx.width, ctx.height)) :
          LET mem == IF ctx = NULL THEN << 0 >>
                     ELSE FrameMemory(f, ctx.width, ctx.height, st[1], st[2])
              buf == Repeat(Poison, Max(1, maxRet))
              a == [ctx |-> IF kind = "ctx" THEN NULL ELSE ctx,
                    src |-> IF kind = "src" THEN NULL ELSE mem,
                    dest |-> IF kind = "dest" THEN NULL ELSE buf,
                    dx |-> IF kind = "dx" THEN 0 ELSE st[1],
                    dy |-> IF kind = "dy" THEN 0 ELSE st[2]]
          IN  /\ frameNo # None => kind = "ok"
              /\ frameNo = None /\ (kind # "ok" \/ ctx = NULL \/ ctx.bpp # 12)
                     => st[1] = 1
              /\ ctx = NULL => kind = "ok"
              /\ frameNo' = f
              /\ src' = mem
              /\ dx' = st[1]
              /\ dy' = st[2]
              /\ call' = [ctx |-> a.ctx = NULL, src |-> a.src = NULL, dest |-> a.dest = NULL,
                          dx |-> a.dx, dy |-> a.dy]
              /\ \E r \in { pack_with_context(a.ctx, a.src, a.dest, a.dx, a.dy) } :
                    /\ dest' = r.dest
                    /\ packRet' = r.ret
                    /\ starts' = r.starts
                    /\ packTold' = r.told
                    /\ ctx' = IF a.ctx = NULL THEN ctx ELSE [ctx EXCEPT !.diff = r.diff]
    /\ out' = NULL
    /\ srcLen' = None
    /\ unpackRet' = None
    /\ unpackTold' = <<>>
    /\ op' = "pack"
    /\ UNCHANGED << args, maxRet >>

\* the source lengths the caller tries: every length up to the packed size when there
\* is a packed frame
SrcLens ==
    IF packRet > 0
    THEN 0..packRet
    ELSE IF ctx = NULL \/ call.dest THEN {0, 1}
    ELSE IF ctx.bpp # 12 THEN {0, 1}
    ELSE {0}

\* unpack_with_context(ctx, src, src_size, dest, dx, dy) on the buffer the last pack
\* filled, dest being a fresh frame buffer
Unpack ==
    /\ op = "pack"
    /\ \E kind \in CallKinds, len \in SrcLens :
          LET buf == Repeat(Poison, Len(src))
              a == [ctx |-> IF kind = "ctx" THEN NULL ELSE ctx,
                    src |-> IF kind = "src" THEN NULL ELSE dest,
                    dest |-> IF kind = "dest" THEN NULL ELSE buf,
                    dx |-> IF kind = "dx" THEN 0 ELSE dx,
                    dy |-> IF kind = "dy" THEN 0 ELSE dy]
          IN  /\ kind # "ok" => len = IF packRet > 0 THEN packRet ELSE 1
              /\ ctx = NULL => kind = "ok"
              /\ call' = [ctx |-> a.ctx = NULL, src |-> a.src = NULL, dest |-> a.dest = NULL,
                          dx |-> a.dx, dy |-> a.dy]
              /\ srcLen' = len
              /\ \E r \in { unpack_with_context(a.ctx, a.src, len, a.dest, a.dx, a.dy) } :
                    /\ out' = r.dest
                    /\ unpackRet' = r.ret
                    /\ unpackTold' = r.told
                    /\ ctx' = IF a.ctx = NULL THEN ctx ELSE [ctx EXCEPT !.diff = r.diff]
    /\ op' = "unpack"
    /\ UNCHANGED << args, frameNo, src, dx, dy, dest, packRet, starts, maxRet, packTold >>

Next == Create \/ CalcMax \/ Pack \/ Unpack \/ Destroy

Spec == Init /\ [][Next]_vars

(***************************************************************************)
(* The same caller with other frame and tile shapes: the 16x8 frame in 8x4 *)
(* tiles, and frames of MaxW columns and MaxH-1 rows in tiles of every     *)
(* height that is not a multiple of 4.  Each packed frame is unpacked with *)
(* src_size "exactly the size returned by pack_with_context".              *)
(***************************************************************************)
ShapeHeights == {1, 2, 3, 5, 6, 7}

Shapes ==
    { << 16, 8, 12, 8, 4 >> }
    \cup { << MaxW, MaxH - 1, 12, tw, th >> : tw \in {MaxW - 1, MaxW}, th \in ShapeHeights }

\* pack_create_context(width, height, bpp, twidth, theight) for one of the shapes
CreateShape ==
    /\ op \in {"init", "destroy"}
    /\ \E a \in Shapes :
          /\ ctx' = pack_create_context(a[1], a[2], a[3], a[4], a[5])
          /\ args' = a
    /\ frameNo' = None
    /\ src' = NULL
    /\ dx' = 0
    /\ dy' = 0
    /\ dest' = NULL
    /\ packRet' = None
    /\ starts' = <<>>
    /\ out' = NULL
    /\ srcLen' = None
    /\ unpackRet' = None
    /\ maxRet' = None
    /\ call' = <<>>
    /\ op' = "create"
    /\ packTold' = <<>>
    /\ unpackTold' = <<>>

\* unpack_with_context(ctx, src, src_size, dest, dx, dy) on the packed frame, src_size
\* being what pack_with_context returned and dest a fresh frame buffer
UnpackWhole ==
    /\ op = "pack"
    /\ packRet > 0
    /\ call' = [ctx |-> FALSE, src |-> FALSE, dest |-> FALSE, dx |-> dx, dy |-> dy]
    /\ srcLen' = packRet
    /\ \E r \in { unpack_with_context(ctx, dest, packRet, Repeat(Poison, Len(src)),
                                       dx, dy) } :
          /\ out' = r.dest
          /\ unpackRet' = r.ret
          /\ unpackTold' = r.told
          /\ ctx' = [ctx EXCEPT !.diff = r.diff]
    /\ op' = "unpack"
    /\ UNCHANGED << args, frameNo, src, dx, dy, dest, packRet, starts, maxRet, packTold >>

NextShapes == CreateShape \/ CalcMax \/ Pack \/ UnpackWhole \/ Destroy

SpecShapes == Init /\ [][NextShapes]_vars


(***************************************************************************)
(* A caller that unpacks a buffer it did not get from pack_with_context as *)
(* it is: the packed frame with another length in the size table for its   *)
(* last tile, src_size ending the buffer where that length says.  The      *)
(* buffer passes the checks of unpack_with_context on the table.           *)
(***************************************************************************)
\* the lengths the table declares for the last tile: every length from one byte up to
\* that of a run-length payload and, when pack compressed the tile, the length pack
\* wrote and that length less one or two bytes of the bit stream
ForgedSizes ==
    LET wrote == packRet - starts[Len(starts)]
        last == packTold[Len(packTold)]
    IN  { e \in 1..wrote : \/ e <= 2 * SliceCount(last.height) + 2
                           \/ last.form = "fse" /\ e >= wrote - 2 }

\* the packed frame with e as the table entry of its last tile
Forged(e) == WriteAt(dest, 4 * (Len(starts) - 1), LE32(e))

\* unpack_with_context(ctx, src, src_size, dest, dx, dy) on a forged buffer.  When a
\* tile's length wraps around in src_size-sb the decompressor is handed a length near
\* SIZE_MAX and reads outside the buffer: the call then returns 0 or 1 or the process
\* is stopped by a fault (op is "fault" and no call follows).
UnpackForged ==
    /\ op = "pack"
    /\ packRet > 0
    /\ call' = [ctx |-> FALSE, src |-> FALSE, dest |-> FALSE, dx |-> dx, dy |-> dy]
    /\ \E e \in ForgedSizes :
          /\ dest' = Forged(e)
          /\ srcLen' = starts[Len(starts)] + e
          /\ \E r \in { unpack_with_context(ctx, Forged(e), starts[Len(starts)] + e,
                                            Repeat(Poison, Len(src)), dx, dy) } :
                /\ out' = r.dest
                /\ unpackTold' = r.told
                /\ ctx' = [ctx EXCEPT !.diff = r.diff]
                /\ IF \E k \in 1..Len(r.told) : r.told[k].wrapped
                   THEN \/ unpackRet' \in {0, 1} /\ op' = "unpack"
                        \/ unpackRet' = None /\ op' = "fault"
                   ELSE /\ unpackRet' = r.ret
                        /\ op' = "unpack"
    /\ UNCHANGED << args, frameNo, src, dx, dy, packRet, starts, maxRet, packTold >>

\* pack_with_context(ctx, src, dest, dx, dy) once more on the frame at hand, with its
\* pointers and strides as they are, after a call on the context that returned 0
Repack ==
    /\ (op = "pack" /\ packRet = 0) \/ (op = "unpack" /\ unpackRet = 0)
    /\ ctx # NULL
    /\ call' = [ctx |-> FALSE, src |-> FALSE, dest |-> FALSE, dx |-> dx, dy |-> dy]
    /\ \E r \in { pack_with_context(ctx, src, Repeat(Poison, Max(1, maxRet)), dx, dy) } :
          /\ dest' = r.dest
          /\ packRet' = r.ret
          /\ starts' = r.starts
          /\ packTold' = r.told
          /\ ctx' = [ctx EXCEPT !.diff = r.diff]
    /\ out' = NULL
    /\ srcLen' = None
    /\ unpackRet' = None
    /\ unpackTold' = <<>>
    /\ op' = "pack"
    /\ UNCHANGED << args, frameNo, src, dx, dy, maxRet >>

NextForged == CreateShape \/ CalcMax \/ Pack \/ UnpackForged \/ Repack \/ Destroy

SpecForged == Init /\ [][NextForged]_vars

(***************************************************************************)
(* A caller of the entropy coder alone: a table is built for a run of      *)
(* MaxSyms symbols as FSE_compressU16 builds it, the first n symbols of    *)
(* the run are compressed with it by FSE_compressU16_usingCTable into a    *)
(* buffer with room to spare, and header and stream are decoded again by   *)
(* FSE_decompressU16.  src holds the symbols, dest the header and the      *)
(* stream, out the decoded symbols.                                        *)
(***************************************************************************)
\* the runs of symbols: symbol i of run (a, m) is (i*(a+1) + i*i/3) mod m
Symbols(n, a, m) == [i \in 1..n |-> ((i - 1) * (a + 1) + ((i - 1) * (i - 1)) \div 3) % m]

\* the room of the destination buffer
Room == 4 * MaxSyms + 16

\* the histogram, tableLog and normalized counters of a run, as in FSE_compressU16
RunTable(run) ==
    Let(FSE_countU16(run, FSE_MAX_SYMBOL_VALUE), LAMBDA hist :
    Let(FSE_optimalTableLog(FSE_DEFAULT_TABLELOG, Len(run), hist.maxSymbolValue),
        LAMBDA tableLog :
        [norm |-> FSE_normalizeCount(tableLog, hist.count, Len(run),
                                     hist.maxSymbolValue).norm,
         maxSymbolValue |-> hist.maxSymbolValue,
         tableLog |-> tableLog]))

\* FSE_compressU16_usingCTable(dst, maxDstSize, src, srcSize, ct) on the first n
\* symbols of a run, after FSE_writeNCount and FSE_buildCTableU16 for the whole run
Compress ==
    /\ op \in {"init", "compress", "decompress"}
    /\ \E n \in 0..MaxSyms, a \in 0..2, m \in {2, 3, 5, 7} :
          Let(RunTable(Symbols(MaxSyms, a, m)), LAMBDA t :
          Let(FSE_writeNCount(Room, t.norm, t.maxSymbolValue, t.tableLog), LAMBDA hdr :
          Let(FSE_compressU16_usingCTable(Room - hdr.size, Symbols(n, a, m),
                  CTableU16(t.norm, t.maxSymbolValue, t.tableLog)), LAMBDA r :
              /\ args' = << n, a, m >>
              /\ src' = Symbols(n, a, m)
              /\ dest' = hdr.bytes \o r.bytes
              /\ packRet' = r.size
              /\ packTold' = << [walked |-> r.walked, ip |-> r.ip, taken |-> r.taken,
                                 size |-> r.size] >>)))
    /\ out' = NULL
    /\ unpackRet' = None
    /\ unpackTold' = <<>>
    /\ op' = "compress"
    /\ UNCHANGED << ctx, frameNo, dx, dy, starts, srcLen, maxRet, call >>

\* FSE_decompressU16(dst, maxDstSize, cSrc, cSrcSize) on the header and the stream,
\* the destination having room for as many symbols as were compressed
Decompress ==
    /\ op = "compress"
    /\ packRet > 0
    /\ \E r \in { FSE_decompressU16(Len(src), dest) } :
          /\ out' = r.out
          /\ unpackRet' = IF r.err = NoError THEN r.ret ELSE None
          /\ unpackTold' = << [err |-> r.err, by |-> r.by] >>
    /\ op' = "decompress"
    /\ UNCHANGED << ctx, args, frameNo, src, dx, dy, dest, packRet, starts, srcLen,
                    maxRet, call, packTold >>

NextFSE == Compress \/ Decompress

SpecFSE == Init /\ [][NextFSE]_vars

(***************************************************************************)
(* What the properties below read from a state.                            *)
(***************************************************************************)
\* the last call passed its pointers and strides as they are
PlainCall ==
    /\ op \in {"pack", "unpack"}
    /\ ~call.ctx /\ ~call.src /\ ~call.dest /\ call.dx # 0 /\ call.dy # 0

\* pixel (x, y) of a frame buffer laid out with the caller's strides
PixelAt(mem, x, y) == mem[dx * x + dy * y + 1]

\* the frame the caller packed keeps to 12 bits, or holds a larger value
InRange == \A i \in 1..Len(src) : src[i] <= 4095
HasWide == \E i \in 1..Len(src) : src[i] >= 4096

\* entry k of the tile size table of the packed frame, read as a little-endian u32
Entry(k) == dest[4 * k + 1] + 256 * dest[4 * k + 2] + 65536 * dest[4 * k + 3]
            + 16777216 * dest[4 * k + 4]

\* the sum of the entries of tiles 0..k-1
EntrySum(k) == SumSeq([j \in 1..k |-> Entry(j - 1)])

\* a value as u16 little-endian
U16LE(v) == << v % 256, v \div 256 >>

\* no cell of the buffer was written
Untouched(buf) == \A i \in 1..Len(buf) : buf[i] = Poison

\* the size of tile t (in raster order, from 0) after clipping to the frame
ClipWidth(t) == Min(ctx.twidth, ctx.width - TileOrigins(ctx)[t + 1].tx)
ClipHeight(t) == Min(ctx.theight, ctx.height - TileOrigins(ctx)[t + 1].ty)

\* the unpacked frame equals the frame that was packed, pixel for pixel
SameFrame ==
    \A x \in 0..(ctx.width - 1), y \in 0..(ctx.height - 1) :
        PixelAt(out, x, y) = PixelAt(src, x, y)

(***************************************************************************)
(* C1.  Round trip: on a context of 12 bits whose tile height is a         *)
(* multiple of 4 and whose tile size divides the frame, packing a frame of *)
(* pixels in 0..4095 returns n > 0, and unpacking those n bytes with the   *)
(* same strides returns 1 and gives back the frame pixel for pixel.        *)
(***************************************************************************)
C1_Context ==
    /\ ctx # NULL
    /\ ctx.bpp = 12
    /\ ctx.theight % 4 = 0
    /\ ctx.width % ctx.twidth = 0
    /\ ctx.height % ctx.theight = 0

C1_RoundTrip ==
    (PlainCall /\ C1_Context /\ InRange) =>
        /\ op = "pack" => packRet > 0
        /\ (op = "unpack" /\ packRet > 0 /\ srcLen = packRet) =>
               unpackRet = 1 /\ SameFrame

\* a round trip of a frame of two tiles, the first of them entropy coded
C1_Witness ==
    /\ PlainCall /\ C1_Context /\ InRange
    /\ op = "unpack" /\ packRet > 0 /\ srcLen = packRet /\ unpackRet = 1
    /\ TileCount(ctx) = 2
    /\ Entry(0) > 10 /\ Entry(0) < 2 * ctx.twidth * ctx.theight

(***************************************************************************)
(* C2.  pack_calc_max_packed_size is a function of the width, height, bpp  *)
(* and tile size the context was created with, whatever was packed or      *)
(* unpacked before the call, and no pack returns more than it.             *)
(***************************************************************************)
C2_MaxSize ==
    /\ maxRet # None =>
           maxRet = pack_calc_max_packed_size(
                        pack_create_context(args[1], args[2], args[3], args[4], args[5]))
    /\ op \in {"pack", "unpack"} => packRet <= pack_calc_max_packed_size(ctx)

\* the size asked after a round trip that used the scratch buffer, of a frame that
\* packs to exactly the maximum
C2_Witness ==
    /\ maxRet # None /\ op = "unpack" /\ unpackRet = 1
    /\ packRet = maxRet
    /\ \E i \in 1..Len(ctx.diff) : ctx.diff[i] # 0

(***************************************************************************)
(* C3.  After a successful pack the N = ceil(W/tw)*ceil(H/th) entries of   *)
(* the tile size table and the 4*N bytes of the table add up to the        *)
(* returned byte count, and the payload of tile k starts at 4*N plus the   *)
(* entries of the tiles before it.                                         *)
(***************************************************************************)
C3_Table ==
    (op = "pack" /\ packRet > 0) =>
        /\ Len(starts) = TileCount(ctx)
        /\ 4 * TileCount(ctx) + EntrySum(TileCount(ctx)) = packRet
        /\ \A k \in 0..(TileCount(ctx) - 1) :
               starts[k + 1] = 4 * TileCount(ctx) + EntrySum(k)

\* a packed frame of four tiles or more whose payloads differ in length
C3_Witness ==
    /\ op = "pack" /\ packRet > 0
    /\ TileCount(ctx) >= 4
    /\ Entry(0) # Entry(1)
    /\ Entry(1) # Entry(TileCount(ctx) - 1)

(***************************************************************************)
(* C4.  pack_create_context returns NULL whenever bpp is not 12 or the     *)
(* tile height is not a multiple of 4, as well as for non-positive         *)
(* dimensions or a tile larger than the frame.                             *)
(***************************************************************************)
C4_CreateRejects ==
    (op = "create"
     /\ (\/ args[3] # 12
         \/ args[5] % 4 # 0
         \/ args[1] <= 0 \/ args[2] <= 0 \/ args[4] <= 0 \/ args[5] <= 0
         \/ args[4] > args[1] \/ args[5] > args[2]))
        => ctx = NULL

(***************************************************************************)
(* C5.  As claimed: pack_create_context returns NULL whenever W mod tw or  *)
(* H mod th is not 0.                                                      *)
(***************************************************************************)
C5_DividesEnforced ==
    (op = "create" /\ args[4] > 0 /\ args[5] > 0
     /\ (args[1] % args[4] # 0 \/ args[2] % args[5] # 0))
        => ctx = NULL

(***************************************************************************)
(* C5, as the code has it.  pack_create_context does not look at whether   *)
(* the tile size divides the frame: for bpp = 12, a tile height that is a  *)
(* multiple of 4, positive dimensions and a tile no larger than the frame  *)
(* it returns a context also when W mod tw or H mod th is not 0; pack then *)
(* stores one table entry per tile of the ceil(W/tw)*ceil(H/th) grid, and  *)
(* the payload of a tile is no longer than the raw form of the tile        *)
(* clipped to the frame, min(tw, W-tx) x min(th, H-ty) pixels.             *)
(***************************************************************************)
C5_ClippedTiles ==
    /\ (op = "create" /\ args[1] > 0 /\ args[2] > 0 /\ args[3] = 12
        /\ args[4] > 0 /\ args[5] > 0 /\ args[5] % 4 = 0
        /\ args[4] <= args[1] /\ args[5] <= args[2])
           => ctx # NULL
    /\ (op = "pack" /\ packRet > 0) =>
           /\ Len(starts) = ((ctx.width + ctx.twidth - 1) \div ctx.twidth)
                            * ((ctx.height + ctx.theight - 1) \div ctx.theight)
           /\ \A t \in 0..(Len(starts) - 1) :
                  Entry(t) <= 2 * ClipWidth(t) * ClipHeight(t)

\* a packed frame whose tile size divides neither the width nor the height, its last
\* tile being stored raw at its clipped size
C5_Witness ==
    /\ op = "pack" /\ packRet > 0
    /\ ctx.theight % 4 = 0
    /\ ctx.width % ctx.twidth # 0 /\ ctx.height % ctx.theight # 0
    /\ ClipWidth(TileCount(ctx) - 1) < ctx.twidth
    /\ ClipHeight(TileCount(ctx) - 1) < ctx.theight
    /\ Entry(TileCount(ctx) - 1)
           = 2 * ClipWidth(TileCount(ctx) - 1) * ClipHeight(TileCount(ctx) - 1)

(***************************************************************************)
(* C6.  As claimed: pack_with_context returns 0 when the frame holds a     *)
(* pixel value >= 4096.                                                    *)
(***************************************************************************)
C6_RejectsWide ==
    (op = "pack" /\ PlainCall /\ HasWide) => packRet = 0

(***************************************************************************)
(* C6, as the code has it.  On a context of 12 bits, pack_with_context     *)
(* does not fail on a frame that holds a pixel value >= 4096: it returns   *)
(* n > 0, a packed frame.                                                  *)
(***************************************************************************)
C6_PacksWide ==
    (op = "pack" /\ PlainCall /\ ctx.bpp = 12 /\ HasWide) => packRet > 0

\* a frame with a pixel >= 4096 away from the slice origins, packed
C6_Witness ==
    /\ op = "pack" /\ PlainCall /\ ctx.bpp = 12 /\ packRet > 0
    /\ \E x \in 1..(ctx.width - 1), y \in 0..(ctx.height - 1) : PixelAt(src, x, y) >= 4096

(***************************************************************************)
(* C7.  unpack_with_context returns 0 when src_len is smaller than the     *)
(* tile size table, and when the declared length of a tile exceeds the     *)
(* source bytes left after the table and the payloads before it; so every  *)
(* src_len smaller than what pack returned makes unpack return 0.          *)
(***************************************************************************)
C7_ShortSource ==
    (op = "unpack" /\ PlainCall /\ ctx.bpp = 12 /\ packRet > 0) =>
        /\ srcLen < 4 * TileCount(ctx) => unpackRet = 0
        /\ (/\ srcLen >= 4 * TileCount(ctx)
            /\ \E k \in 0..(TileCount(ctx) - 1) :
                   Entry(k) > srcLen - (4 * TileCount(ctx) + EntrySum(k)))
               => unpackRet = 0
        /\ srcLen < packRet => unpackRet = 0

\* a packed frame of several tiles unpacked with a source one byte short of the last
\* payload
C7_Witness ==
    /\ op = "unpack" /\ PlainCall /\ ctx.bpp = 12 /\ packRet > 0
    /\ TileCount(ctx) > 1
    /\ srcLen = packRet - 1
    /\ unpackRet = 0

(***************************************************************************)
(* C8.  pack_with_context and unpack_with_context return 0 and write no    *)
(* byte of the destination when the context, the source or the destination *)
(* is null, dx or dy is 0, the context's bpp is not 12, or (unpack)        *)
(* src_len is 0.                                                           *)
(***************************************************************************)
C8_BadCall ==
    (/\ op \in {"pack", "unpack"}
     /\ \/ call.ctx \/ call.src \/ call.dest
        \/ call.dx = 0 \/ call.dy = 0
        \/ ctx.bpp # 12
        \/ (op = "unpack" /\ srcLen = 0))
        => IF op = "pack" THEN packRet = 0 /\ Untouched(dest)
                          ELSE unpackRet = 0 /\ Untouched(out)

\* a good packed frame unpacked with a zero stride into a frame buffer
C8_Witness ==
    /\ op = "unpack" /\ packRet > 0 /\ srcLen = packRet
    /\ ~call.ctx /\ ~call.src /\ ~call.dest /\ call.dx = 0
    /\ unpackRet = 0 /\ Len(out) > 0

(***************************************************************************)
(* C9.  RLE shape: a tile of 12-bit pixels, at least 2 wide and a multiple *)
(* of 4 high, whose residuals all have one value v has a payload of 10     *)
(* bytes, the four slice-origin pixels and then v as u16 little-endian,    *)
(* and unpacking it gives the tile back; the 4x4 frame of zeros in one 4x4 *)
(* tile packs to 14 bytes, a table entry of 10 and 10 zero bytes.  Stated  *)
(* of the last tile of the frame, whose residuals the scratch buffer       *)
(* holds after the pack.                                                   *)
(***************************************************************************)
C9_Tile == TileCount(ctx) - 1

C9_Constant ==
    /\ ClipHeight(C9_Tile) % 4 = 0
    /\ ClipWidth(C9_Tile) >= 2
    /\ \A i \in 5..(ClipWidth(C9_Tile) * ClipHeight(C9_Tile)) : ctx.diff[i] = ctx.diff[5]

C9_Seed(k) ==
    PixelAt(src, TileOrigins(ctx)[C9_Tile + 1].tx,
                 TileOrigins(ctx)[C9_Tile + 1].ty + k * (ClipHeight(C9_Tile) \div 4))

C9_RLE ==
    /\ (op = "pack" /\ PlainCall /\ packRet > 0 /\ InRange /\ C9_Constant) =>
           /\ Entry(C9_Tile) = 10
           /\ packRet = starts[C9_Tile + 1] + 10
           /\ SubSeq(dest, starts[C9_Tile + 1] + 1, packRet)
                  = U16LE(C9_Seed(0)) \o U16LE(C9_Seed(1)) \o U16LE(C9_Seed(2))
                    \o U16LE(C9_Seed(3)) \o U16LE(ctx.diff[5])
    /\ (op = "unpack" /\ PlainCall /\ packRet > 0 /\ srcLen = packRet /\ InRange
        /\ ClipHeight(C9_Tile) % 4 = 0 /\ ClipWidth(C9_Tile) >= 2
        /\ Entry(C9_Tile) = 10) =>
           /\ unpackRet = 1
           /\ \A x \in 0..(ClipWidth(C9_Tile) - 1), y \in 0..(ClipHeight(C9_Tile) - 1) :
                  PixelAt(out, TileOrigins(ctx)[C9_Tile + 1].tx + x,
                               TileOrigins(ctx)[C9_Tile + 1].ty + y)
                  = PixelAt(src, TileOrigins(ctx)[C9_Tile + 1].tx + x,
                                 TileOrigins(ctx)[C9_Tile + 1].ty + y)
    /\ (op = "pack" /\ PlainCall /\ args = << 4, 4, 12, 4, 4 >>
        /\ \A i \in 1..Len(src) : src[i] = 0) =>
           /\ packRet = 14
           /\ SubSeq(dest, 1, 14) = << 10, 0, 0, 0 >> \o Repeat(0, 10)

\* a tile of constant nonzero residual and nonzero seeds, unpacked
C9_Witness ==
    /\ op = "unpack" /\ PlainCall /\ packRet > 0 /\ srcLen = packRet /\ InRange
    /\ ClipHeight(C9_Tile) % 4 = 0 /\ ClipWidth(C9_Tile) >= 2
    /\ Entry(C9_Tile) = 10
    /\ dest[packRet - 1] # 0
    /\ dest[starts[C9_Tile + 1] + 3] # 0
    /\ unpackRet = 1

(***************************************************************************)
(* C10.  As claimed: for W = H = 4, tw = th = 4 and the pixels 0, 1, ...,  *)
(* 15 in row-major order the payload of the tile is longer than 10 and     *)
(* shorter than 32 bytes.                                                  *)
(***************************************************************************)
C10_Ramp ==
    /\ args = << 4, 4, 12, 4, 4 >>
    /\ PlainCall
    /\ dx = 1 /\ dy = 4
    /\ src = [i \in 1..16 |-> i - 1]

C10_RampIsFSE ==
    (C10_Ramp /\ op = "pack") => Entry(0) > 10 /\ Entry(0) < 32

(***************************************************************************)
(* C10, as the code has it.  The 12 residuals of that frame are all 1, so  *)
(* the payload of the tile is the RLE form, exactly 10 bytes: the seeds 0, *)
(* 4, 8, 12 and the residual 1; the packed frame is 14 bytes and the round *)
(* trip is exact.                                                          *)
(***************************************************************************)
C10_RampIsRLE ==
    /\ (C10_Ramp /\ op = "pack") =>
           /\ packRet = 14
           /\ Entry(0) = 10
           /\ SubSeq(dest, 1, 14) = << 10, 0, 0, 0, 0, 0, 4, 0, 8, 0, 12, 0, 1, 0 >>
    /\ (C10_Ramp /\ op = "unpack" /\ packRet > 0 /\ srcLen = packRet) =>
           unpackRet = 1 /\ out = src

\* the ramp packed and unpacked
C10_Witness ==
    C10_Ramp /\ op = "unpack" /\ packRet = 14 /\ srcLen = 14 /\ unpackRet = 1

(***************************************************************************)
(* C11.  As claimed: for W = 16, H = 8, tw = 8, th = 4 the packed frame    *)
(* has exactly two tiles, a table of two u32 entries (8 bytes), and its    *)
(* first payload starts at offset 8.                                       *)
(***************************************************************************)
C11_Frame ==
    /\ args = << 16, 8, 12, 8, 4 >>
    /\ op \in {"pack", "unpack"}
    /\ PlainCall
    /\ packRet > 0

C11_TwoTiles ==
    C11_Frame => Len(starts) = 2 /\ starts[1] = 8

(***************************************************************************)
(* C11, as the code has it.  The tile grid is ceil(16/8) x ceil(8/4) = 2 x *)
(* 2: the packed frame has exactly four tiles, a table of four u32 entries *)
(* (16 bytes) that add up, with the table, to the returned size, and its   *)
(* first payload starts at offset 16; unpack decodes four tiles.           *)
(***************************************************************************)
C11_FourTiles ==
    /\ C11_Frame =>
           /\ Len(starts) = 4
           /\ starts[1] = 16
           /\ 16 + EntrySum(4) = packRet
           /\ \A k \in 1..4 : starts[k] = 16 + EntrySum(k - 1)
    /\ (C11_Frame /\ op = "unpack" /\ srcLen = packRet) =>
           unpackRet = 1 /\ Len(unpackTold) = 4

\* the 16x8 frame packed into four payloads, one of them entropy coded, and unpacked
C11_Witness ==
    /\ C11_Frame /\ op = "unpack" /\ srcLen = packRet /\ unpackRet = 1
    /\ \E k \in 1..4 : packTold[k].form = "fse"
    /\ InRange /\ SameFrame

(***************************************************************************)
(* What the properties below read from the per-tile records.               *)
(***************************************************************************)
\* the seed bytes of a tile of the given height
SeedBytes(height) == 2 * (IF height < 4 THEN height ELSE 4)

\* a frame was packed by a plain call, and the call succeeded
Packed == PlainCall /\ ctx # NULL /\ packRet > 0

\* the packed frame was then unpacked from exactly the bytes pack returned
UnpackedWhole == Packed /\ op = "unpack" /\ srcLen = packRet

(***************************************************************************)
(* C12.  The payload length alone selects the decoding branch: unpack      *)
(* takes, for every tile, the branch pack produced.  A compressed payload  *)
(* comes from a return r of FSE_compressU16 with 2 < r < 2*w*h - 2*slices, *)
(* so its length is neither 2*slices+2 nor 2*w*h, and a raw payload never  *)
(* has the length of a run-length one.                                     *)
(***************************************************************************)
C12_Branch ==
    /\ Packed =>
           /\ Len(packTold) = TileCount(ctx)
           /\ \A k \in 1..Len(packTold) :
                  Let(packTold[k], LAMBDA t :
                  Let(SeedBytes(t.height), LAMBDA sb :
                      /\ t.form \in {"rle", "raw", "fse"}
                      /\ t.form = "fse" =>
                             /\ 2 < t.ret /\ t.ret < 2 * t.width * t.height - sb
                             /\ Entry(k - 1) = sb + t.ret
                             /\ Entry(k - 1) # sb + 2
                             /\ Entry(k - 1) # 2 * t.width * t.height
                      /\ t.form = "rle" => Entry(k - 1) = sb + 2
                      /\ t.form = "raw" =>
                             /\ Entry(k - 1) = 2 * t.width * t.height
                             /\ Entry(k - 1) # sb + 2))
    /\ UnpackedWhole =>
           /\ unpackRet = 1
           /\ Len(unpackTold) = Len(packTold)
           /\ \A k \in 1..Len(packTold) :
                  /\ unpackTold[k].form = packTold[k].form
                  /\ unpackTold[k].size = Entry(k - 1)
                  /\ ~unpackTold[k].wrapped

\* a frame of two tiles, one compressed and one run-length coded, was unpacked
C12_Witness ==
    /\ UnpackedWhole /\ unpackRet = 1
    /\ \E j, k \in 1..Len(packTold) :
           /\ packTold[j].form = "fse" /\ unpackTold[j].form = "fse"
           /\ packTold[k].form = "rle" /\ unpackTold[k].form = "rle"

(***************************************************************************)
(* C13.  A compressed tile is accepted only if the decompressor yields     *)
(* exactly w*h - slices residuals: when it returns without error but with  *)
(* another number of residuals, unpack_with_context returns 0.             *)
(***************************************************************************)
\* the last tile unpacked took the compressed branch and the decompressor returned
\* without error
C13_Decoded ==
    /\ op = "unpack" /\ unpackTold # <<>>
    /\ Let(unpackTold[Len(unpackTold)], LAMBDA t :
           t.form = "fse" /\ ~t.wrapped /\ t.err = NoError)

C13_ExactCount ==
    (C13_Decoded /\ unpackRet = 1) =>
        Let(unpackTold[Len(unpackTold)], LAMBDA t : t.got = t.need)

(***************************************************************************)
(* C14.  Whatever the size table says, once it passes the check of each    *)
(* size against the bytes that remain, unpack reads only bytes inside the  *)
(* span the table declares for the tile: a length smaller than the seed    *)
(* bytes does not make it read seeds past the span, and the length handed  *)
(* to the decompressor, the size minus the seed bytes, never wraps around. *)
(***************************************************************************)
C14_InSpan ==
    op \in {"unpack", "fault"} =>
        \A k \in 1..Len(unpackTold) :
            /\ ~unpackTold[k].wrapped
            /\ unpackTold[k].form \in {"rle", "fse"} =>
                   unpackTold[k].size >= SeedBytes(unpackTold[k].height)

(***************************************************************************)
(* C15.  pack_with_context stores no byte of dest at an index at or above  *)
(* pack_calc_max_packed_size(ctx): each tile, the room given to the        *)
(* compressor included, stays within 2*tw*th bytes of its payload start,   *)
(* and no payload starts after the table size plus the raw sizes of the    *)
(* tiles before it.                                                        *)
(***************************************************************************)
\* the raw sizes of the first k tiles
C15_RawSum(k) == SumSeq([j \in 1..k |-> 2 * packTold[j].width * packTold[j].height])

C15_InBounds ==
    (op = "pack" /\ PlainCall /\ ctx # NULL /\ maxRet # None) =>
        /\ Len(starts) = Len(packTold)
        /\ \A k \in 1..Len(packTold) :
               /\ packTold[k].reach <= 2 * packTold[k].width * packTold[k].height
               /\ 2 * packTold[k].width * packTold[k].height
                      <= 2 * ctx.twidth * ctx.theight
               /\ starts[k] <= 4 * TileCount(ctx) + C15_RawSum(k - 1)
               /\ starts[k] + packTold[k].reach <= maxRet
        /\ \A i \in 1..Len(dest) :
               dest[i] # Poison =>
                   \/ i <= 4 * TileCount(ctx)
                   \/ \E k \in 1..Len(packTold) :
                          starts[k] < i /\ i <= starts[k] + packTold[k].reach
        /\ packRet <= maxRet

\* a frame of several tiles was packed, one of them compressed with the last container
\* of its bit stream stored past the payload, another one filling its room to the last
\* byte
C15_Witness ==
    /\ Packed /\ op = "pack" /\ maxRet = pack_calc_max_packed_size(ctx)
    /\ \E j, k \in 1..Len(packTold) :
           /\ packTold[j].form = "fse"
           /\ packTold[j].reach > Entry(j - 1)
           /\ j < Len(packTold)
           /\ packTold[k].reach = 2 * packTold[k].width * packTold[k].height
           /\ packTold[k].walk.walked

(***************************************************************************)
(* C16.  A context carries nothing from one call to the next: after any    *)
(* calls, returning 0 or not, its width, height, bpp and tile size are     *)
(* what it was created with; pack_with_context of a frame gives the bytes  *)
(* and the return value that a context just created with the same          *)
(* arguments gives for that frame, and unpack of a packed frame as pack    *)
(* wrote it gives the same pixels as on such a context.                    *)
(***************************************************************************)
\* a context just created with the arguments the context at hand was created with
C16_Fresh == pack_create_context(args[1], args[2], args[3], args[4], args[5])

C16_NoMemory ==
    /\ ctx # NULL => [ctx EXCEPT !.diff = C16_Fresh.diff] = C16_Fresh
    /\ (op = "pack" /\ PlainCall /\ ctx # NULL) =>
           Let(pack_with_context(C16_Fresh, src, Repeat(Poison, Max(1, maxRet)), dx, dy),
               LAMBDA r : r.ret = packRet /\ r.dest = dest /\ r.starts = starts)
    /\ (UnpackedWhole /\ dest = Forged(packRet - starts[Len(starts)])) =>
           Let(unpack_with_context(C16_Fresh, dest, packRet, Repeat(Poison, Len(src)),
                                   dx, dy),
               LAMBDA r : r.ret = unpackRet /\ r.dest = out)

\* a context that has been through the calls on two frames or more, its scratch buffer
\* no longer as created, unpacked a frame with a compressed tile to the pixels that a
\* new context gives
C16_Witness ==
    /\ UnpackedWhole /\ unpackRet = 1 /\ frameNo >= 2
    /\ \E k \in 1..Len(packTold) : packTold[k].form = "fse"
    /\ ctx.diff # C16_Fresh.diff
    /\ out = unpack_with_context(C16_Fresh, dest, packRet, Repeat(Poison, Len(src)),
                                 dx, dy).dest

(***************************************************************************)
(* C17.  Packing a tile of w x h pixels, h a multiple of 4, stores exactly *)
(* w*h - 4 residuals, into the scratch cells 4 .. w*h-1, none left out and *)
(* none stored twice, four by four with cell 4*j+k holding a residual of   *)
(* slice k; every residual is at most 4095 and no cell at or above tw*th   *)
(* is stored into, so the scratch buffer of the context is not overrun.    *)
(***************************************************************************)
C17_Residuals ==
    (op = "pack" /\ PlainCall /\ ctx # NULL /\ ctx.bpp = 12) =>
        /\ Len(ctx.diff) = ctx.twidth * ctx.theight
        /\ \A i \in 1..Len(ctx.diff) : ctx.diff[i] \in 0..4095
        /\ \A k \in 1..Len(packTold) :
               Let(packTold[k], LAMBDA t :
                   /\ \A i \in 1..Len(t.at) :
                          t.at[i] >= 0 /\ t.at[i] < ctx.twidth * ctx.theight
                   /\ t.height % 4 = 0 =>
                          /\ Len(t.at) = t.width * t.height - 4
                          /\ \A i \in 1..Len(t.at) :
                                 /\ t.at[i] = 3 + i
                                 /\ t.at[i] % 4
                                        = ResidualOrder(t.width, t.height)[i].k)

\* a frame was packed in whole tiles of 8 rows, 8*w - 4 residuals for each, one of them
\* the residual of a pixel below its prediction
C17_Witness ==
    /\ Packed /\ op = "pack" /\ InRange
    /\ ctx.theight = 8
    /\ \A k \in 1..Len(packTold) :
           packTold[k].height = 8 /\ Len(packTold[k].at) = 8 * packTold[k].width - 4
    /\ \E i \in 1..Len(ctx.diff) : ctx.diff[i] > 2048
    /\ ctx.diff[Len(ctx.diff)] # 0

(***************************************************************************)
(* C18.  Raw fallback: whenever FSE_compressU16 reports 0 (its output is   *)
(* not smaller than its input, or there is no residual) or that the        *)
(* destination is too small, the payload of the tile is exactly 2*w*h      *)
(* bytes, the tile's pixels row by row as u16 little-endian with the top   *)
(* four bits of each word zero; unpack of a payload of that length copies  *)
(* the words back into the tile.                                           *)
(***************************************************************************)
\* the compressor reported 0 or a destination too small for tile k
C18_Fallback(k) ==
    \/ packTold[k].err = "dstSize_tooSmall"
    \/ packTold[k].err = NoError /\ packTold[k].ret = 0

\* byte i (from 1) of the payload of tile k
C18_Byte(k, i) == dest[starts[k] + i]

\* pixel j (from 0, row by row) of tile k in a frame buffer
C18_Pixel(mem, k, j) ==
    PixelAt(mem, TileOrigins(ctx)[k].tx + (j % packTold[k].width),
                 TileOrigins(ctx)[k].ty + (j \div packTold[k].width))

C18_Raw ==
    /\ Packed =>
           \A k \in 1..Len(packTold) :
               /\ C18_Fallback(k) <=> packTold[k].form = "raw"
               /\ C18_Fallback(k) =>
                      /\ Entry(k - 1) = 2 * packTold[k].width * packTold[k].height
                      /\ \A j \in 0..(packTold[k].width * packTold[k].height - 1) :
                             /\ C18_Byte(k, 2 * j + 1) = C18_Pixel(src, k, j) % 256
                             /\ C18_Byte(k, 2 * j + 2)
                                    = (C18_Pixel(src, k, j) \div 256) % 16
                             /\ InRange =>
                                    C18_Byte(k, 2 * j + 1) + 256 * C18_Byte(k, 2 * j + 2)
                                        = C18_Pixel(src, k, j)
    /\ UnpackedWhole =>
           \A k \in 1..Len(packTold) :
               C18_Fallback(k) =>
                   /\ unpackRet = 1
                   /\ unpackTold[k].form = "raw"
                   /\ \A j \in 0..(packTold[k].width * packTold[k].height - 1) :
                          C18_Pixel(out, k, j)
                              = C18_Byte(k, 2 * j + 1) + 256 * C18_Byte(k, 2 * j + 2)

\* a frame was unpacked that has a tile of nine pixels or more for which the room was
\* too small for the compressor, and a tile of one column, without a residual, for
\* which the compressor returned 0
C18_Witness ==
    /\ UnpackedWhole /\ unpackRet = 1 /\ InRange
    /\ \E j, k \in 1..Len(packTold) :
           /\ packTold[j].err = "dstSize_tooSmall"
           /\ packTold[j].width * packTold[j].height >= 9
           /\ unpackTold[j].form = "raw"
           /\ \E i \in 0..8 : C18_Pixel(out, j, i) > 255
           /\ packTold[k].err = NoError /\ packTold[k].ret = 0
           /\ unpackTold[k].form = "raw"

(***************************************************************************)
(* C19.  The round trip also holds for tile heights that are not a         *)
(* multiple of 4 (1, 2 and 3 included, with fewer than four slices) and    *)
(* for frames the tile size does not divide, the tiles at the edges        *)
(* clipped to min(tw, W-tx) x min(th, H-ty): the slice heights sum to the  *)
(* tile height, packer and unpacker visit the same slices in the same      *)
(* order on every row, and unpacking the packed frame gives back every     *)
(* pixel of a frame of pixels in 0..4095.                                  *)
(***************************************************************************)
\* the slices that have a row y, from slice 0 on
C19_Active(height, y) == {k \in 0..3 : SliceActive(height, y, k)}

C20_StateOf(i) == IF i % 2 = 0 THEN 1 ELSE 2

C20_Walk ==
    /\ (op \in {"compress", "decompress"} /\ Len(src) <= 2) =>
           /\ packRet = 0
           /\ ~packTold[1].walked
           /\ packTold[1].taken = <<>>
    /\ (op \in {"compress", "decompress"} /\ Len(src) >= 3) =>
           Let(packTold[1], LAMBDA w :
               /\ w.walked
               /\ packRet > 0
               /\ Len(w.taken) = Len(src)
               /\ \A i \in 1..Len(w.taken) :
                      /\ w.taken[i][1] = Len(src) - i
                      /\ w.taken[i][2] = C20_StateOf(w.taken[i][1])
               /\ w.ip = 0)
    /\ op = "decompress" =>
           /\ unpackTold[1].err = NoError
           /\ unpackRet = Len(src)
           /\ out = src
           /\ \A i \in 1..Len(unpackTold[1].by) :
                  unpackTold[1].by[i] = C20_StateOf(i - 1)

\* a run of MaxSyms symbols, an odd number, was compressed and decoded again
C20_Witness ==
    /\ op = "decompress"
    /\ Len(src) = MaxSyms /\ Len(src) % 2 = 1
    /\ Len(packTold[1].taken) = MaxSyms
    /\ Len(unpackTold[1].by) = MaxSyms
    /\ Cardinality({src[i] : i \in 1..Len(src)}) >= 3

=============================================================================
